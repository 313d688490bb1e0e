----------------------- MODULE ClassicTopologyProofs -----------------------
(***************************************************************************)
(* What holds of every layout of a classic VPC, whatever is asked for: the *)
(* blocks are sound, and so is the egress.                                 *)
(*                                                                         *)
(* DescribedInv ties each description to the argument and the zone it came *)
(* from, so that names tell subnets apart.  GatewayInv says which zones    *)
(* have a gateway so far, and RouteInv where each route leads and how the  *)
(* gateways were taken in turn; BlockInv and SplitInv say the same of the  *)
(* blocks.                                                                 *)
(***************************************************************************)
EXTENDS ClassicTopology, FiniteSetTheorems, FunctionTheorems, TLAPS

-----------------------------------------------------------------------------
(* Arithmetic.                                                             *)
LEMMA DivisionFacts ==
  ASSUME NEW x \in Nat, NEW s \in Nat \ {0}
  PROVE  /\ x % s \in 0..(s - 1)
         /\ x \div s \in Nat
         /\ x = s * (x \div s) + (x % s)
OBVIOUS

LEMMA DivisionIsUnique ==
  ASSUME NEW s \in Nat \ {0}, NEW q \in Nat, NEW r \in 0..(s - 1), NEW x \in Nat,
         x = s * q + r
  PROVE  x \div s = q /\ x % s = r
<1> DEFINE d == x \div s
           e == x % s
<1>1. d \in Nat /\ e \in 0..(s - 1) /\ x = s * d + e
  BY DivisionFacts
<1> HIDE DEF d, e
<1>2. s * d + e = s * q + r /\ s * d \in Nat /\ s * q \in Nat
  BY <1>1
<1>3. ~(d < q)
  <2> SUFFICES ASSUME d < q PROVE FALSE
    OBVIOUS
  <2>1. s * (d + 1) <= s * q /\ s * (d + 1) = s * d + s
    BY <1>1
  <2> QED BY <1>1, <1>2, <2>1
<1>4. ~(q < d)
  <2> SUFFICES ASSUME q < d PROVE FALSE
    OBVIOUS
  <2>1. s * (q + 1) <= s * d /\ s * (q + 1) = s * q + s
    BY <1>1
  <2> QED BY <1>1, <1>2, <2>1
<1>5. d = q
  BY <1>1, <1>3, <1>4
<1>6. e = r
  BY <1>1, <1>2, <1>5
<1> QED BY <1>5, <1>6 DEF d, e

LEMMA MultipleIsProduct ==
  ASSUME NEW x \in Nat, NEW s \in Nat \ {0}, x % s = 0
  PROVE  \E q \in Nat : x = s * q
<1>1. x \div s \in Nat /\ x = s * (x \div s)
  BY DivisionFacts
<1> QED BY <1>1

LEMMA ProductIsMultiple ==
  ASSUME NEW q \in Nat, NEW s \in Nat \ {0}
  PROVE  (s * q) % s = 0
OBVIOUS

LEMMA MultipleOfMultiple ==
  ASSUME NEW x \in Nat, NEW t \in Nat \ {0}, NEW s \in Nat \ {0},
         x % t = 0, t % s = 0
  PROVE  x % s = 0
<1>1. PICK p \in Nat : x = t * p
  BY MultipleIsProduct
<1>2. PICK q \in Nat : t = s * q
  BY MultipleIsProduct
<1>3. x = s * (q * p) /\ q * p \in Nat
  BY <1>1, <1>2
<1> QED BY <1>3, ProductIsMultiple

LEMMA SumOfMultiples ==
  ASSUME NEW x \in Nat, NEW y \in Nat, NEW s \in Nat \ {0}, x % s = 0, y % s = 0
  PROVE  (x + y) % s = 0
<1>1. PICK p \in Nat : x = s * p
  BY MultipleIsProduct
<1>2. PICK q \in Nat : y = s * q
  BY MultipleIsProduct
<1>3. x + y = s * (p + q) /\ p + q \in Nat
  BY <1>1, <1>2
<1> QED BY <1>3, ProductIsMultiple

(* The next turn of a round robin.                                         *)
LEMMA NextTurn ==
  ASSUME NEW t \in Nat, NEW n \in Nat \ {0}
  PROVE  (t + 1) % n = IF t % n = n - 1 THEN 0 ELSE (t % n) + 1
<1> DEFINE d == t \div n
           e == t % n
<1>1. d \in Nat /\ e \in 0..(n - 1) /\ t = n * d + e
  BY DivisionFacts
<1> HIDE DEF d, e
<1>2. CASE e = n - 1
  <2>1. t + 1 = n * (d + 1) + 0 /\ d + 1 \in Nat /\ 0 \in 0..(n - 1)
    BY <1>1, <1>2
  <2>2. (t + 1) % n = 0
    BY <2>1, DivisionIsUnique
  <2> QED BY <1>2, <2>2 DEF e
<1>3. CASE e # n - 1
  <2>1. t + 1 = n * d + (e + 1) /\ e + 1 \in 0..(n - 1) /\ t + 1 \in Nat
    BY <1>1, <1>3
  <2> DEFINE r == e + 1
  <2>2. t + 1 = n * d + r /\ r \in 0..(n - 1)
    BY <2>1
  <2> HIDE DEF r
  <2>3. (t + 1) % n = r
    BY <1>1, <2>1, <2>2, DivisionIsUnique
  <2> QED BY <1>3, <2>3 DEF e, r
<1> QED BY <1>2, <1>3

-----------------------------------------------------------------------------
(* The numbers of a set in order.                                          *)
UpTo(S, i) == {j \in S : j <= i}

LEMMA RankFacts ==
  ASSUME NEW S \in SUBSET Nat, IsFiniteSet(S)
  PROVE  /\ Cardinality(S) \in Nat
         /\ \A i \in S : /\ IsFiniteSet(UpTo(S, i))
                         /\ Cardinality(UpTo(S, i)) \in 1..Cardinality(S)
         /\ \A i, j \in S : i < j => Cardinality(UpTo(S, i)) < Cardinality(UpTo(S, j))
<1>1. Cardinality(S) \in Nat
  BY FS_CardinalityType
<1>2. ASSUME NEW i \in S
      PROVE  /\ IsFiniteSet(UpTo(S, i))
             /\ Cardinality(UpTo(S, i)) \in 1..Cardinality(S)
  <2>1. UpTo(S, i) \in SUBSET S /\ UpTo(S, i) # {}
    BY DEF UpTo
  <2>2. IsFiniteSet(UpTo(S, i)) /\ Cardinality(UpTo(S, i)) <= Cardinality(S)
    BY <2>1, FS_Subset
  <2>3. Cardinality(UpTo(S, i)) \in Nat \ {0}
    BY <2>1, <2>2, FS_CardinalityType, FS_EmptySet
  <2> QED BY <1>1, <2>2, <2>3
<1>3. ASSUME NEW i \in S, NEW j \in S, i < j
      PROVE  Cardinality(UpTo(S, i)) < Cardinality(UpTo(S, j))
  <2>1. UpTo(S, i) \in SUBSET UpTo(S, j)
    <3>1. \A x \in S : x \in Nat
      OBVIOUS
    <3>2. \A x \in S : x <= i => x <= j
      BY <1>3, <3>1
    <3> QED BY <3>2 DEF UpTo
  <2>2. j \in UpTo(S, j) /\ j \notin UpTo(S, i)
    BY <1>3 DEF UpTo
  <2>3. /\ Cardinality(UpTo(S, i)) <= Cardinality(UpTo(S, j))
        /\ Cardinality(UpTo(S, i)) # Cardinality(UpTo(S, j))
    BY <1>2, <2>1, <2>2, FS_Subset
  <2> QED BY <1>2, <2>3
<1> QED BY <1>1, <1>2, <1>3

LEMMA RankIsUnique ==
  ASSUME NEW S \in SUBSET Nat, IsFiniteSet(S), NEW i \in S, NEW j \in S,
         Cardinality(UpTo(S, i)) = Cardinality(UpTo(S, j))
  PROVE  i = j
<1>1. ~(i < j) /\ ~(j < i)
  BY RankFacts
<1> QED BY <1>1

LEMMA KthFacts ==
  ASSUME NEW S \in SUBSET Nat, IsFiniteSet(S), NEW k \in 1..Cardinality(S)
  PROVE  KthOf(S, k) \in S /\ Cardinality(UpTo(S, KthOf(S, k))) = k
<1> DEFINE rank == [i \in S |-> Cardinality(UpTo(S, i))]
           places == 1..Cardinality(S)
<1>1. \A i, j \in S : Cardinality(UpTo(S, i)) = Cardinality(UpTo(S, j)) => i = j
  BY RankIsUnique
<1>2. rank \in Injection(S, places)
  BY <1>1, RankFacts, Fun_IsInj
<1>3. IsFiniteSet(places) /\ Cardinality(places) = Cardinality(S)
  <2>1. Cardinality(S) \in Nat /\ 1 \in Int /\ Cardinality(S) \in Int
    BY RankFacts
  <2>2. IsFiniteSet(places)
        /\ Cardinality(places) = IF 1 > Cardinality(S) THEN 0 ELSE Cardinality(S) - 1 + 1
    BY <2>1, FS_Interval
  <2> QED BY <2>1, <2>2
<1>4. rank \in Surjection(S, places)
  BY <1>2, <1>3, FS_Injection
<1>5. \E i \in S : Cardinality(UpTo(S, i)) = k
  BY <1>4 DEF Surjection
<1>6. KthOf(S, k) = CHOOSE i \in S : Cardinality(UpTo(S, i)) = k
  BY DEF KthOf, UpTo
<1> QED BY <1>5, <1>6

LEMMA KthIs ==
  ASSUME NEW S \in SUBSET Nat, IsFiniteSet(S), NEW i \in S, NEW k,
         Cardinality(UpTo(S, i)) = k
  PROVE  KthOf(S, k) = i
<1>1. k \in 1..Cardinality(S)
  BY RankFacts
<1>2. KthOf(S, k) \in S /\ Cardinality(UpTo(S, KthOf(S, k))) = k
  BY <1>1, KthFacts
<1> QED BY <1>2, RankIsUnique

LEMMA KthIsInjective ==
  ASSUME NEW S \in SUBSET Nat, IsFiniteSet(S),
         NEW k \in 1..Cardinality(S), NEW l \in 1..Cardinality(S),
         KthOf(S, k) = KthOf(S, l)
  PROVE  k = l
BY KthFacts

LEMMA FirstFacts ==
  ASSUME NEW S \in SUBSET Nat, IsFiniteSet(S), S # {}
  PROVE  FirstOf(S) \in S /\ \A i \in S : FirstOf(S) <= i
<1>1. Cardinality(S) \in Nat /\ Cardinality(S) # 0
  BY FS_CardinalityType, FS_EmptySet
<1>2. FirstOf(S) \in S /\ Cardinality(UpTo(S, FirstOf(S))) = 1
  BY <1>1, KthFacts DEF FirstOf
<1>3. ASSUME NEW i \in S PROVE FirstOf(S) <= i
  <2>1. i \in Nat /\ FirstOf(S) \in Nat
    BY <1>2
  <2>2. Cardinality(UpTo(S, i)) \in 1..Cardinality(S) /\ Cardinality(S) \in Nat
    BY RankFacts
  <2>3. i < FirstOf(S) => Cardinality(UpTo(S, i)) < Cardinality(UpTo(S, FirstOf(S)))
    BY <1>2, RankFacts
  <2>4. ~(i < FirstOf(S))
    BY <1>2, <2>2, <2>3
  <2> QED BY <2>1, <2>4
<1> QED BY <1>2, <1>3

-----------------------------------------------------------------------------
(* The request.                                                            *)
LEMMA RequestFacts ==
  ASSUME request \in Requests
  PROVE  /\ request.vpc.base \in Nat
         /\ request.vpc.mask \in Masks
         /\ request.vpc.base % BlockSize[request.vpc.mask] = 0
         /\ AzCount \in Nat \ {0}
         /\ request.numberOfNatGateways \in Nat
         /\ request.subnets \in Seq(SubnetArgs)
         /\ Len(request.subnets) \in Nat
         /\ DOMAIN request.subnets = 1..Len(request.subnets)
         /\ \A i \in DOMAIN request.subnets : request.subnets[i] \in SubnetArgs
<1>1. request \in Request /\ request.vpc.base % BlockSize[request.vpc.mask] = 0
  BY TopologyRequestAssumption
<1>2. /\ request.vpc \in Block
      /\ request.azCount \in Nat \ {0}
      /\ request.numberOfNatGateways \in Nat
      /\ request.subnets \in Seq(SubnetArgs)
  BY <1>1 DEF Request
<1>3. request.vpc.base \in Nat /\ request.vpc.mask \in Masks
  BY <1>2 DEF Block, Addresses
<1> QED BY <1>1, <1>2, <1>3 DEF AzCount

LEMMA SizeFacts ==
  ASSUME NEW m \in Masks
  PROVE  m \in 0..Width /\ BlockSize[m] \in Nat \ {0}
BY WidthAssumption, BlockSizeAssumption DEF Masks

(* The argument that is described k-th.                                    *)
PlaceOf(k) ==
  IF k <= Cardinality(MaskedSubnets) THEN KthOf(MaskedSubnets, k)
  ELSE KthOf(UnmaskedSubnets, k - Cardinality(MaskedSubnets))

LEMMA MaskedFacts ==
  ASSUME request \in Requests
  PROVE  /\ MaskedSubnets \in SUBSET Nat /\ IsFiniteSet(MaskedSubnets)
         /\ UnmaskedSubnets \in SUBSET Nat /\ IsFiniteSet(UnmaskedSubnets)
         /\ Cardinality(MaskedSubnets) \in Nat
         /\ Cardinality(UnmaskedSubnets) \in Nat
         /\ Cardinality(UnmaskedSubnets) = 0 <=> UnmaskedSubnets = {}
         /\ Cardinality(MaskedSubnets) + Cardinality(UnmaskedSubnets)
              = Len(request.subnets)
<1> DEFINE all == DOMAIN request.subnets
<1>1. all = 1..Len(request.subnets) /\ Len(request.subnets) \in Nat
  BY RequestFacts
<1>2. IsFiniteSet(all) /\ Cardinality(all) = Len(request.subnets)
  <2>1. /\ IsFiniteSet(1..Len(request.subnets))
        /\ Cardinality(1..Len(request.subnets)) =
             IF 1 > Len(request.subnets) THEN 0 ELSE Len(request.subnets) - 1 + 1
    BY <1>1, FS_Interval
  <2> QED BY <1>1, <2>1
<1>3. all \in SUBSET Nat /\ MaskedSubnets \in SUBSET all /\ UnmaskedSubnets \in SUBSET all
  BY <1>1 DEF MaskedSubnets, UnmaskedSubnets
<1>4. IsFiniteSet(MaskedSubnets) /\ IsFiniteSet(UnmaskedSubnets)
  BY <1>2, <1>3, FS_Subset
<1>5. /\ Cardinality(MaskedSubnets) \in Nat
      /\ Cardinality(UnmaskedSubnets) \in Nat
      /\ Cardinality(UnmaskedSubnets) = 0 <=> UnmaskedSubnets = {}
  BY <1>4, FS_CardinalityType, FS_EmptySet
<1>6. all \cap MaskedSubnets = MaskedSubnets
  BY <1>3
<1>7. Cardinality(UnmaskedSubnets) = Cardinality(all) - Cardinality(MaskedSubnets)
  BY <1>2, <1>6, FS_Difference DEF UnmaskedSubnets
<1> QED BY <1>1, <1>2, <1>3, <1>4, <1>5, <1>7

LEMMA OrderedFacts ==
  ASSUME request \in Requests, NEW k \in 1..Len(request.subnets)
  PROVE  /\ PlaceOf(k) \in DOMAIN request.subnets
         /\ Ordered(k) = request.subnets[PlaceOf(k)]
         /\ Ordered(k) \in SubnetArgs
         /\ IsMasked(Ordered(k)) <=> k <= Cardinality(MaskedSubnets)
<1>1. Ordered(k) = request.subnets[PlaceOf(k)]
  BY DEF Ordered, PlaceOf
<1>2. CASE k <= Cardinality(MaskedSubnets)
  <2>1. PlaceOf(k) = KthOf(MaskedSubnets, k)
    BY <1>2 DEF PlaceOf
  <2>2. k \in 1..Cardinality(MaskedSubnets)
    BY <1>2, MaskedFacts, RequestFacts
  <2>3. PlaceOf(k) \in MaskedSubnets
    BY <2>1, <2>2, MaskedFacts, KthFacts
  <2> QED BY <1>1, <1>2, <2>3, RequestFacts DEF MaskedSubnets
<1>3. CASE ~(k <= Cardinality(MaskedSubnets))
  <2>1. PlaceOf(k) = KthOf(UnmaskedSubnets, k - Cardinality(MaskedSubnets))
    BY <1>3 DEF PlaceOf
  <2>2. k - Cardinality(MaskedSubnets) \in 1..Cardinality(UnmaskedSubnets)
    BY <1>3, MaskedFacts, RequestFacts
  <2>3. PlaceOf(k) \in UnmaskedSubnets
    BY <2>1, <2>2, MaskedFacts, KthFacts
  <2> QED BY <1>1, <1>3, <2>3, RequestFacts DEF MaskedSubnets, UnmaskedSubnets
<1> QED BY <1>2, <1>3

LEMMA OrderIsInjective ==
  ASSUME request \in Requests, NEW k \in 1..Len(request.subnets),
         NEW l \in 1..Len(request.subnets), PlaceOf(k) = PlaceOf(l)
  PROVE  k = l
<1> DEFINE m == Cardinality(MaskedSubnets)
<1>0. m \in Nat /\ k \in Nat /\ l \in Nat
  BY MaskedFacts, RequestFacts
<1>1. k <= m <=> l <= m
  BY OrderedFacts
<1>2. CASE k <= m
  <2>1. k \in 1..m /\ l \in 1..m /\ KthOf(MaskedSubnets, k) = KthOf(MaskedSubnets, l)
    BY <1>0, <1>1, <1>2, RequestFacts DEF PlaceOf
  <2> QED BY <2>1, MaskedFacts, KthIsInjective
<1>3. CASE ~(k <= m)
  <2>1. /\ k - m \in 1..Cardinality(UnmaskedSubnets)
        /\ l - m \in 1..Cardinality(UnmaskedSubnets)
    BY <1>0, <1>1, <1>3, MaskedFacts, RequestFacts
  <2>2. KthOf(UnmaskedSubnets, k - m) = KthOf(UnmaskedSubnets, l - m)
    BY <1>1, <1>3 DEF PlaceOf
  <2>3. k - m = l - m
    BY <2>1, <2>2, MaskedFacts, KthIsInjective
  <2> QED BY <1>0, <2>3
<1> QED BY <1>2, <1>3

-----------------------------------------------------------------------------
(* What holds in every state.                                              *)

(* Neither an empty list nor a mixture of locations.                       *)
Checked ==
  /\ request.subnets # <<>>
  /\ Located = IF IsExplicit THEN DOMAIN request.subnets ELSE {}

Described == Len(request.subnets) * (IF IsExplicit THEN 1 ELSE AzCount)

(* The description of the p-th subnet.                                     *)
ArgumentOf(p) ==
  IF IsExplicit THEN request.subnets[p] ELSE Ordered(((p - 1) \div AzCount) + 1)

IndexOf(p) == IF IsExplicit THEN p - 1 ELSE (p - 1) % AzCount

ZoneAt(p) == IF IsExplicit THEN ArgumentOf(p).location.zone ELSE IndexOf(p) + 1

AsDescribed(p) ==
  /\ subnets[p].name = NameOf(ArgumentOf(p), IndexOf(p))
  /\ subnets[p].type = ArgumentOf(p).type
  /\ subnets[p].zone = ZoneAt(p)
  /\ ~IsExplicit => subnets[p].block \in [base : Nat, mask : SubnetMasks]

TypeInv ==
  /\ request \in Requests
  /\ phase \in {"called", "describing", "gateways", "routes", "built", "failed"}
  /\ failure \in Optional(Failures)
  /\ subnets \in Seq(Subnet)
  /\ splitMask \in Optional(Masks)
  /\ visited \in Nat /\ turn \in Nat
  /\ gateways \in Seq([publicSubnet : SubnetNames, zone : Optional(Nat)])
  /\ routes \in Seq([privateSubnet : SubnetNames, natGateway : Nat])

PhaseInv ==
  /\ phase = "called" => subnets = <<>> /\ splitMask = Undefined
  /\ phase \notin {"called", "failed"} => Checked
  /\ phase # "failed" => failure = Undefined
  /\ phase \in {"called", "describing", "failed"} =>
       gateways = <<>> /\ visited = 0 /\ routes = <<>> /\ turn = 0

DescriptionInv ==
  phase \notin {"called", "failed"} =>
    /\ Len(subnets) <= Described
    /\ phase # "describing" => Len(subnets) = Described
    /\ \A p \in DOMAIN subnets : AsDescribed(p)

DescribedInv == TypeInv /\ PhaseInv /\ DescriptionInv

LEMMA DescribedFacts ==
  ASSUME request \in Requests
  PROVE  /\ Described \in Nat
         /\ IsExplicit => Described = Len(request.subnets)
         /\ ~IsExplicit => Described = Len(request.subnets) * AzCount
<1>1. Len(request.subnets) \in Nat /\ AzCount \in Nat \ {0}
  BY RequestFacts
<1>2. /\ Len(request.subnets) * 1 = Len(request.subnets)
      /\ Len(request.subnets) * AzCount \in Nat
  BY <1>1
<1> QED BY <1>1, <1>2, Zenon DEF Described

(* Where the p-th subnet comes from.                                       *)
SpecOf(p) == ((p - 1) \div AzCount) + 1

LEMMA SpecFacts ==
  ASSUME request \in Requests, ~IsExplicit, NEW p \in 1..Described
  PROVE  /\ SpecOf(p) \in 1..Len(request.subnets)
         /\ IndexOf(p) \in 0..(AzCount - 1)
         /\ p - 1 = AzCount * (SpecOf(p) - 1) + IndexOf(p)
         /\ ArgumentOf(p) = Ordered(SpecOf(p))
         /\ ArgumentOf(p) \in SubnetArgs
<1> DEFINE q == (p - 1) \div AzCount
           r == (p - 1) % AzCount
<1>1. AzCount \in Nat \ {0} /\ Len(request.subnets) \in Nat
  BY RequestFacts
<1>2. Described = Len(request.subnets) * AzCount /\ Described \in Nat
  BY DescribedFacts
<1>3. p - 1 \in Nat /\ p - 1 < Len(request.subnets) * AzCount
  BY <1>2
<1>4. q \in Nat /\ r \in 0..(AzCount - 1) /\ p - 1 = AzCount * q + r
  BY <1>1, <1>3, DivisionFacts
<1>5. SpecOf(p) = q + 1 /\ IndexOf(p) = r /\ ArgumentOf(p) = Ordered(SpecOf(p))
  BY DEF SpecOf, IndexOf, ArgumentOf
<1> HIDE DEF q, r
<1>6. q < Len(request.subnets)
  <2> SUFFICES ASSUME Len(request.subnets) <= q PROVE FALSE
    BY <1>1, <1>4
  <2>1. AzCount * Len(request.subnets) <= AzCount * q
    BY <1>1, <1>4
  <2>2. AzCount * q \in Nat /\ AzCount * Len(request.subnets) = Len(request.subnets) * AzCount
    BY <1>1, <1>4
  <2> QED BY <1>1, <1>3, <1>4, <2>1, <2>2
<1>7. SpecOf(p) \in 1..Len(request.subnets) /\ SpecOf(p) - 1 = q
  BY <1>1, <1>4, <1>5, <1>6
<1> QED BY <1>4, <1>5, <1>7, OrderedFacts

LEMMA ArgumentFacts ==
  ASSUME request \in Requests, Checked, NEW p \in 1..Described
  PROVE  /\ ArgumentOf(p) \in SubnetArgs
         /\ IndexOf(p) \in Nat
         /\ ZoneAt(p) \in Optional(Nat)
         /\ NameOf(ArgumentOf(p), IndexOf(p)) \in SubnetNames
<1>1. ArgumentOf(p) \in SubnetArgs /\ IndexOf(p) \in Nat
  <2>1. CASE IsExplicit
    <3>1. p \in DOMAIN request.subnets
      BY <2>1, DescribedFacts, RequestFacts
    <3>2. p \in Nat /\ p >= 1
      BY DescribedFacts
    <3> QED BY <2>1, <3>1, <3>2, RequestFacts DEF ArgumentOf, IndexOf
  <2>2. CASE ~IsExplicit
    BY <2>2, SpecFacts, RequestFacts
  <2> QED BY <2>1, <2>2
<1>2. ZoneAt(p) \in Optional(Nat)
  <2>1. CASE IsExplicit
    <3>1. p \in Located
      BY <2>1, DescribedFacts, RequestFacts DEF Checked
    <3>2. ArgumentOf(p).location # Undefined
      BY <2>1, <3>1 DEF Located, ArgumentOf
    <3>3. ArgumentOf(p).location \in [zone : Optional(Zones)]
      BY <1>1, <3>2 DEF SubnetArgs, Optional
    <3>4. ArgumentOf(p).location.zone \in Zones \cup {Undefined}
      BY <3>3 DEF Optional
    <3> QED BY <2>1, <3>4, SubnetMasksAssumption DEF ZoneAt, Optional
  <2>2. CASE ~IsExplicit
    <3>1. IndexOf(p) + 1 \in Nat
      BY <1>1
    <3> QED BY <2>2, <3>1 DEF ZoneAt, Optional
  <2> QED BY <2>1, <2>2
<1>3. /\ ArgumentOf(p).name \in Optional(Names)
      /\ ArgumentOf(p).type \in Types
  BY <1>1 DEF SubnetArgs
<1>4. NameOf(ArgumentOf(p), IndexOf(p)) \in SubnetNames
  BY <1>1, <1>3 DEF NameOf, SubnetNames, Optional
<1> QED BY <1>1, <1>2, <1>4

(* No two subnets have a name in common.                                   *)
LEMMA NamesDiffer ==
  ASSUME DescribedInv, phase \notin {"called", "failed"},
         NEW p \in DOMAIN subnets, NEW q \in DOMAIN subnets,
         subnets[p].name = subnets[q].name
  PROVE  p = q
<1>1. request \in Requests /\ Checked
  BY DEF DescribedInv, TypeInv, PhaseInv
<1>2. p \in 1..Described /\ q \in 1..Described
  <2>1. Len(subnets) \in Nat /\ DOMAIN subnets = 1..Len(subnets)
    BY DEF DescribedInv, TypeInv
  <2>2. Len(subnets) <= Described /\ Described \in Nat
    BY <1>1, DescribedFacts DEF DescribedInv, DescriptionInv
  <2> QED BY <2>1, <2>2
<1>3. NameOf(ArgumentOf(p), IndexOf(p)) = NameOf(ArgumentOf(q), IndexOf(q))
  BY DEF DescribedInv, DescriptionInv, AsDescribed
<1> DEFINE s == ArgumentOf(p)
           t == ArgumentOf(q)
<1>4. CASE IsExplicit
  <2>1. /\ p \in DOMAIN request.subnets /\ q \in DOMAIN request.subnets
        /\ s = request.subnets[p] /\ t = request.subnets[q]
        /\ IndexOf(p) = p - 1 /\ IndexOf(q) = q - 1
    BY <1>1, <1>2, <1>4, DescribedFacts, RequestFacts DEF ArgumentOf, IndexOf
  <2>2. s.location # Undefined
    BY <1>1, <1>4, <2>1 DEF Checked, Located
  <2>3. p \in Nat /\ q \in Nat
    BY <1>1, <1>2, DescribedFacts
  <2>4. s.name = t.name
    BY <1>3, <1>4 DEF NameOf
  <2>5. CASE s.name # Undefined
    <3>1. p # q => s.name = Undefined
      BY <1>1, <2>1, <2>2, <2>4, SubnetNamesAssumption
    <3> QED BY <2>5, <3>1
  <2>6. CASE s.name = Undefined
    <3>1. IndexOf(p) = IndexOf(q)
      BY <1>3, <2>4, <2>6 DEF NameOf
    <3> QED BY <2>1, <2>3, <3>1
  <2> QED BY <2>5, <2>6
<1>5. CASE ~IsExplicit
  <2>1. s.name = t.name /\ s.type = t.type /\ IndexOf(p) = IndexOf(q)
    BY <1>3, <1>5 DEF NameOf
  <2>2. /\ SpecOf(p) \in 1..Len(request.subnets) /\ SpecOf(q) \in 1..Len(request.subnets)
        /\ s = request.subnets[PlaceOf(SpecOf(p))]
        /\ t = request.subnets[PlaceOf(SpecOf(q))]
        /\ PlaceOf(SpecOf(p)) \in DOMAIN request.subnets
        /\ PlaceOf(SpecOf(q)) \in DOMAIN request.subnets
    BY <1>1, <1>2, <1>5, SpecFacts, OrderedFacts
  <2>3. s.location = Undefined
    BY <1>1, <1>5, <2>2 DEF Checked, Located
  <2>4. PlaceOf(SpecOf(p)) = PlaceOf(SpecOf(q))
    BY <1>1, <2>1, <2>2, <2>3, SubnetNamesAssumption
  <2>5. SpecOf(p) = SpecOf(q)
    BY <1>1, <2>2, <2>4, OrderIsInjective
  <2>6. p - 1 = q - 1
    <3> DEFINE base == AzCount * (SpecOf(p) - 1)
    <3>1. p - 1 = base + IndexOf(p) /\ q - 1 = base + IndexOf(p)
      BY <1>1, <1>2, <1>5, <2>1, <2>5, SpecFacts
    <3> QED BY <3>1
  <2>7. p \in Nat /\ q \in Nat
    BY <1>1, <1>2, DescribedFacts
  <2> QED BY <2>6, <2>7
<1> QED BY <1>4, <1>5

-----------------------------------------------------------------------------
(* DescribedInv is inductive.                                              *)
LEMMA DescribedInit == Init => DescribedInv
<1> SUFFICES ASSUME Init PROVE DescribedInv
  OBVIOUS
<1>1. TypeInv
  BY DEF Init, TypeInv, Optional, Failures
<1>2. PhaseInv /\ DescriptionInv
  BY DEF Init, PhaseInv, DescriptionInv
<1> QED BY <1>1, <1>2 DEF DescribedInv

(* A step that changes neither the request nor what is described.          *)
LEMMA SameDescription ==
  ASSUME UNCHANGED <<request, subnets>>
  PROVE  /\ \A p : AsDescribed(p)' <=> AsDescribed(p)
         /\ Described' = Described
         /\ Checked' <=> Checked
BY DEF AsDescribed, Described, Checked, ArgumentOf, IndexOf, ZoneAt, NameOf, Ordered,
       IsExplicit, MaskedSubnets, UnmaskedSubnets, IsMasked, AzCount, Located

LEMMA LengthFacts ==
  ASSUME TypeInv
  PROVE  /\ Len(subnets) \in Nat /\ DOMAIN subnets = 1..Len(subnets)
         /\ \A p \in DOMAIN subnets : subnets[p] \in Subnet
         /\ Len(gateways) \in Nat /\ DOMAIN gateways = 1..Len(gateways)
         /\ Len(routes) \in Nat /\ DOMAIN routes = 1..Len(routes)
BY DEF TypeInv

(* A description that is appended is the next one.                         *)
LEMMA AppendDescription ==
  ASSUME DescribedInv, phase = "describing", UNCHANGED <<request, phase, failure,
         visited, gateways, routes, turn>>, splitMask' \in Optional(Masks),
         NEW s, s \in Subnet,
         Len(subnets) < Described,
         subnets' = Append(subnets, s),
         LET p == Len(subnets) + 1
         IN  /\ s.name = NameOf(ArgumentOf(p), IndexOf(p))
             /\ s.type = ArgumentOf(p).type
             /\ s.zone = ZoneAt(p)
             /\ ~IsExplicit => s.block \in [base : Nat, mask : SubnetMasks]
  PROVE  DescribedInv'
<1>1. TypeInv'
  BY DEF DescribedInv, TypeInv
<1>2. Checked' <=> Checked
  BY DEF Checked, IsExplicit, Located
<1>3. PhaseInv'
  BY <1>2 DEF DescribedInv, PhaseInv
<1>4. Described' = Described /\ Described \in Nat
  BY DescribedFacts DEF Described, IsExplicit, AzCount, DescribedInv, TypeInv
<1>5. \A p \in DOMAIN subnets' : AsDescribed(p)'
  <2> SUFFICES ASSUME NEW p \in DOMAIN subnets' PROVE AsDescribed(p)'
    OBVIOUS
  <2>1. /\ ArgumentOf(p)' = ArgumentOf(p) /\ IndexOf(p)' = IndexOf(p)
        /\ ZoneAt(p)' = ZoneAt(p) /\ (IsExplicit' <=> IsExplicit)
    BY DEF ArgumentOf, IndexOf, ZoneAt, Ordered, IsExplicit, MaskedSubnets,
           UnmaskedSubnets, IsMasked, AzCount
  <2>2. NameOf(ArgumentOf(p), IndexOf(p))' = NameOf(ArgumentOf(p), IndexOf(p))
    BY <2>1 DEF NameOf, IsExplicit
  <2>3. CASE p \in DOMAIN subnets
    <3>1. AsDescribed(p) /\ subnets'[p] = subnets[p]
      BY <2>3 DEF DescribedInv, DescriptionInv, TypeInv
    <3> QED BY <2>1, <2>2, <3>1 DEF AsDescribed
  <2>4. CASE p \notin DOMAIN subnets
    <3>1. p = Len(subnets) + 1 /\ subnets'[p] = s
      BY <2>4 DEF DescribedInv, TypeInv
    <3> QED BY <2>1, <2>2, <3>1 DEF AsDescribed
  <2> QED BY <2>3, <2>4
<1>6. Len(subnets') = Len(subnets) + 1 /\ Len(subnets) \in Nat
  BY DEF DescribedInv, TypeInv
<1>7. DescriptionInv'
  BY <1>4, <1>5, <1>6 DEF DescriptionInv
<1> QED BY <1>1, <1>3, <1>7 DEF DescribedInv

(* A step that leaves the descriptions and does not begin them.            *)
LEMMA KeepDescriptions ==
  ASSUME DescribedInv, UNCHANGED <<request, subnets>>, TypeInv', PhaseInv',
         phase' = "failed" \/ phase \notin {"called", "failed"},
         phase' \notin {"describing", "failed"} /\ phase = "describing" =>
           Len(subnets) = Described,
         phase' = "describing" => phase = "describing"
  PROVE  DescribedInv'
<1>1. CASE phase' = "failed"
  BY <1>1 DEF DescribedInv, DescriptionInv
<1>2. CASE phase \notin {"called", "failed"}
  <2>1. DescriptionInv'
    BY <1>2, SameDescription DEF DescribedInv, DescriptionInv
  <2> QED BY <2>1 DEF DescribedInv
<1> QED BY <1>1, <1>2

LEMMA CheckLocationsDescribed ==
  ASSUME DescribedInv, CheckLocations, request' = request PROVE DescribedInv'
<1>1. phase = "called" /\ subnets = <<>> /\ UNCHANGED <<subnets, splitMask, visited,
        gateways, routes, turn>>
  BY DEF CheckLocations, Fail, GoTo, DescribedInv, PhaseInv
<1>2. TypeInv'
  BY <1>1 DEF DescribedInv, TypeInv, CheckLocations, Fail, GoTo, Optional, Failures
<1>3. phase' \in {"failed", "describing"} /\ (phase' # "failed" => failure' = Undefined)
  BY <1>1 DEF CheckLocations, Fail, GoTo, DescribedInv, PhaseInv
<1>4. phase' = "describing" => Checked
  <2> SUFFICES ASSUME phase' = "describing" PROVE Checked
    OBVIOUS
  <2>1. request.subnets # <<>> /\ Located \in {{}, DOMAIN request.subnets}
    BY DEF CheckLocations, Fail, GoTo
  <2>2. 1 \in DOMAIN request.subnets
    BY <2>1, RequestFacts DEF DescribedInv, TypeInv
  <2>3. IsExplicit <=> 1 \in Located
    BY <2>2 DEF IsExplicit, Located
  <2> QED BY <2>1, <2>2, <2>3 DEF Checked
<1>5. PhaseInv'
  BY <1>1, <1>3, <1>4, SameDescription DEF DescribedInv, PhaseInv
<1>6. DescriptionInv'
  <2>1. Len(subnets') = 0 /\ DOMAIN subnets' = {}
    BY <1>1
  <2>2. Described' \in Nat
    BY <1>1, SameDescription, DescribedFacts DEF DescribedInv, TypeInv
  <2> QED BY <1>3, <2>1, <2>2 DEF DescriptionInv
<1> QED BY <1>2, <1>5, <1>6 DEF DescribedInv

(* The block that is placed next.                                          *)
LEMMA NextBlockFacts ==
  ASSUME DescribedInv, phase = "describing", ~IsExplicit, NEW mask \in SubnetMasks
  PROVE  /\ NextStart \in Nat
         /\ NextBlockAt(mask) \in [base : Nat, mask : SubnetMasks]
         /\ End(NextBlockAt(mask)) = NextStart + BlockSize[mask]
         /\ BlockSize[mask] \in Nat \ {0}
<1>1. request \in Requests /\ Len(subnets) \in Nat /\ DOMAIN subnets = 1..Len(subnets)
  BY LengthFacts DEF DescribedInv, TypeInv
<1>2. NextStart \in Nat
  <2>1. CASE subnets = <<>>
    BY <1>1, <2>1, RequestFacts DEF NextStart
  <2>2. CASE subnets # <<>>
    <3> DEFINE b == subnets[Len(subnets)].block
    <3>1. Len(subnets) \in DOMAIN subnets
      BY <1>1, <2>2 DEF DescribedInv, TypeInv
    <3>2. b \in [base : Nat, mask : SubnetMasks]
      BY <3>1 DEF DescribedInv, DescriptionInv, AsDescribed
    <3>3. b.base \in Nat /\ BlockSize[b.mask] \in Nat
      BY <3>2, SizeFacts, SubnetMasksAssumption
    <3> QED BY <2>2, <3>3 DEF NextStart, End, Size
  <2> QED BY <2>1, <2>2
<1>3. BlockSize[mask] \in Nat \ {0}
  BY SizeFacts, SubnetMasksAssumption
<1>4. NextBlockAt(mask) = [base |-> NextStart, mask |-> mask]
  BY DEF NextBlockAt
<1> QED BY <1>2, <1>3, <1>4 DEF End, Size

(* The mask that the next subnet takes.                                    *)
NextMask ==
  LET s == Ordered((Len(subnets) \div AzCount) + 1)
  IN  IF IsMasked(s) THEN s.cidrMask ELSE splitMask

Placed ==
  [name |-> NameOf(Ordered((Len(subnets) \div AzCount) + 1), Len(subnets) % AzCount),
   type |-> Ordered((Len(subnets) \div AzCount) + 1).type,
   zone |-> (Len(subnets) % AzCount) + 1, block |-> NextBlockAt(NextMask)]

LEMMA PlaceSubnetDoes ==
  ASSUME PlaceSubnet
  PROVE  /\ phase = "describing" /\ ~IsExplicit
         /\ Len(subnets) < Len(request.subnets) * AzCount
         /\ NextMask # Undefined
         /\ \/ /\ NextMask \notin SubnetMasks
               /\ Fail("mask")
            \/ /\ NextMask \in SubnetMasks
               /\ End(NextBlockAt(NextMask)) > End(request.vpc)
               /\ Fail("room")
            \/ /\ NextMask \in SubnetMasks
               /\ ~(End(NextBlockAt(NextMask)) > End(request.vpc))
               /\ subnets' = Append(subnets, Placed)
               /\ UNCHANGED <<phase, failure, splitMask, visited, gateways, routes, turn>>
BY DEF PlaceSubnet, NextMask, Placed

LEMMA PlacedFacts ==
  ASSUME DescribedInv, phase = "describing", ~IsExplicit, NextMask \in SubnetMasks,
         Len(subnets) < Len(request.subnets) * AzCount
  PROVE  LET p == Len(subnets) + 1
         IN  /\ p \in 1..Described
             /\ Placed \in Subnet
             /\ Placed.name = NameOf(ArgumentOf(p), IndexOf(p))
             /\ Placed.type = ArgumentOf(p).type
             /\ Placed.zone = ZoneAt(p)
             /\ Placed.block = NextBlockAt(NextMask)
             /\ Placed.block \in [base : Nat, mask : SubnetMasks]
<1> DEFINE p == Len(subnets) + 1
           at == (Len(subnets) \div AzCount) + 1
           i == Len(subnets) % AzCount
<1>1. request \in Requests /\ Checked /\ Len(subnets) \in Nat
  BY LengthFacts DEF DescribedInv, TypeInv, PhaseInv
<1>2. p \in 1..Described
  BY <1>1, DescribedFacts
<1>3. p - 1 = Len(subnets)
  BY <1>1
<1>4. ArgumentOf(p) = Ordered(at) /\ IndexOf(p) = i /\ ZoneAt(p) = i + 1
  BY <1>3 DEF ArgumentOf, IndexOf, ZoneAt
<1>5. NextBlockAt(NextMask) \in [base : Nat, mask : SubnetMasks]
  BY NextBlockFacts
<1>6. Placed = [name |-> NameOf(ArgumentOf(p), IndexOf(p)), type |-> ArgumentOf(p).type,
                zone |-> ZoneAt(p), block |-> NextBlockAt(NextMask)]
  BY <1>4 DEF Placed
<1>7. /\ ArgumentOf(p).type \in Types /\ ZoneAt(p) \in Optional(Nat)
      /\ NameOf(ArgumentOf(p), IndexOf(p)) \in SubnetNames
  BY <1>1, <1>2, ArgumentFacts DEF SubnetArgs
<1>8. Placed \in Subnet
  BY <1>5, <1>6, <1>7 DEF Subnet, Optional
<1> HIDE DEF p, at, i
<1> QED BY <1>2, <1>5, <1>6, <1>8 DEF p

LEMMA PlaceSubnetDescribed ==
  ASSUME DescribedInv, PlaceSubnet, request' = request PROVE DescribedInv'
<1>1. /\ phase = "describing" /\ ~IsExplicit
      /\ Len(subnets) < Len(request.subnets) * AzCount
  BY PlaceSubnetDoes
<1>2. CASE Fail("mask") \/ Fail("room")
  <2>1. phase' = "failed" /\ failure' \in Failures
    BY <1>2 DEF Fail, Failures
  <2>2. UNCHANGED <<subnets, splitMask, visited, gateways, routes, turn>>
    BY <1>2 DEF Fail
  <2>3. TypeInv'
    BY <2>1, <2>2 DEF DescribedInv, TypeInv, Optional
  <2>4. PhaseInv'
    BY <1>1, <2>1, <2>2 DEF DescribedInv, PhaseInv
  <2> QED BY <2>1, <2>2, <2>3, <2>4, KeepDescriptions
<1>3. CASE ~(Fail("mask") \/ Fail("room"))
  <2>1. /\ NextMask \in SubnetMasks
        /\ subnets' = Append(subnets, Placed)
        /\ UNCHANGED <<phase, failure, splitMask, visited, gateways, routes, turn>>
    BY <1>3, PlaceSubnetDoes
  <2>2. Len(subnets) < Described
    BY <1>1, DescribedFacts DEF DescribedInv, TypeInv
  <2>3. splitMask' \in Optional(Masks)
    BY <2>1 DEF DescribedInv, TypeInv
  <2> QED BY <1>1, <2>1, <2>2, <2>3, PlacedFacts, AppendDescription
<1> QED BY <1>2, <1>3

-----------------------------------------------------------------------------
(* Subnets and zones.                                                      *)
LEMMA TypeSetFacts ==
  ASSUME TypeInv, NEW type
  PROVE  /\ OfType(type) \in SUBSET DOMAIN subnets
         /\ OfType(type) \in SUBSET Nat
         /\ IsFiniteSet(DOMAIN subnets)
         /\ \A S \in SUBSET DOMAIN subnets : S \in SUBSET Nat /\ IsFiniteSet(S)
<1>1. DOMAIN subnets = 1..Len(subnets) /\ Len(subnets) \in Nat
  BY LengthFacts
<1>2. OfType(type) \in SUBSET DOMAIN subnets
  BY DEF OfType
<1>3. IsFiniteSet(1..Len(subnets))
  BY <1>1, FS_Interval
<1>4. \A S \in SUBSET DOMAIN subnets : S \in SUBSET Nat /\ IsFiniteSet(S)
  BY <1>1, <1>3, FS_Subset
<1> QED BY <1>1, <1>2, <1>3, <1>4

LEMMA ZonesFacts ==
  ASSUME TypeInv, NEW S \in SUBSET DOMAIN subnets
  PROVE  /\ IsFiniteSet(ZonesOf(S))
         /\ ZonesOf(S) \in SUBSET Optional(Nat)
         /\ Cardinality(ZonesOf(S)) \in Nat
         /\ S # {} => ZonesOf(S) # {} /\ Cardinality(ZonesOf(S)) > 0
<1> DEFINE zone == [i \in S |-> subnets[i].zone]
<1>1. IsFiniteSet(S)
  BY TypeSetFacts
<1>2. zone \in Surjection(S, ZonesOf(S))
  BY DEF Surjection, ZonesOf
<1>3. IsFiniteSet(ZonesOf(S))
  BY <1>1, <1>2, FS_Surjection
<1>4. ZonesOf(S) \in SUBSET Optional(Nat)
  BY LengthFacts DEF ZonesOf, Subnet
<1>5. S # {} => ZonesOf(S) # {}
  BY DEF ZonesOf
<1>6. /\ Cardinality(ZonesOf(S)) \in Nat
      /\ Cardinality(ZonesOf(S)) = 0 <=> ZonesOf(S) = {}
  BY <1>3, FS_CardinalityType, FS_EmptySet
<1> QED BY <1>3, <1>4, <1>5, <1>6

LEMMA KthAzFacts ==
  ASSUME NEW zs \in SUBSET Optional(Nat), IsFiniteSet(zs), NEW k \in 1..Cardinality(zs)
  PROVE  KthAz(zs, k) \in zs
<1> DEFINE named == zs \ {Undefined}
<1>1. /\ named \in SUBSET Nat /\ IsFiniteSet(named)
      /\ Cardinality(named) \in Nat /\ Cardinality(zs) \in Nat
      /\ Cardinality(named) = IF Undefined \in zs THEN Cardinality(zs) - 1
                              ELSE Cardinality(zs)
  BY FS_RemoveElement, FS_CardinalityType DEF Optional
<1>2. CASE k <= Cardinality(named)
  <2>1. KthAz(zs, k) = KthOf(named, k)
    BY <1>2 DEF KthAz
  <2>2. k \in 1..Cardinality(named)
    BY <1>1, <1>2
  <2>3. KthOf(named, k) \in named
    BY <1>1, <2>2, KthFacts
  <2> QED BY <2>1, <2>3
<1>3. CASE ~(k <= Cardinality(named))
  <2>1. KthAz(zs, k) = Undefined
    BY <1>3 DEF KthAz
  <2>2. Undefined \in zs
    BY <1>1, <1>3
  <2> QED BY <2>1, <2>2
<1> QED BY <1>2, <1>3

LEMMA KthAzIsInjective ==
  ASSUME NEW zs \in SUBSET Optional(Nat), IsFiniteSet(zs),
         NEW k \in 1..Cardinality(zs), NEW l \in 1..Cardinality(zs),
         KthAz(zs, k) = KthAz(zs, l)
  PROVE  k = l
<1> DEFINE named == zs \ {Undefined}
           n == Cardinality(named)
<1>1. /\ named \in SUBSET Nat /\ IsFiniteSet(named)
      /\ n \in Nat /\ Cardinality(zs) \in Nat
      /\ n = IF Undefined \in zs THEN Cardinality(zs) - 1 ELSE Cardinality(zs)
  BY FS_RemoveElement, FS_CardinalityType DEF Optional
<1>2. \A j \in 1..Cardinality(zs) :
        /\ j <= n => j \in 1..n /\ KthAz(zs, j) = KthOf(named, j) /\ KthAz(zs, j) \in named
        /\ ~(j <= n) => j = Cardinality(zs) /\ KthAz(zs, j) = Undefined
  <2> SUFFICES ASSUME NEW j \in 1..Cardinality(zs)
               PROVE  /\ j <= n => /\ j \in 1..n
                                   /\ KthAz(zs, j) = KthOf(named, j)
                                   /\ KthAz(zs, j) \in named
                      /\ ~(j <= n) => j = Cardinality(zs) /\ KthAz(zs, j) = Undefined
    OBVIOUS
  <2>1. CASE j <= n
    <3>1. j \in 1..n /\ KthAz(zs, j) = KthOf(named, j)
      BY <1>1, <2>1 DEF KthAz
    <3>2. KthOf(named, j) \in named
      BY <1>1, <3>1, KthFacts
    <3> QED BY <2>1, <3>1, <3>2
  <2>2. CASE ~(j <= n)
    <3>1. KthAz(zs, j) = Undefined
      BY <2>2 DEF KthAz
    <3>2. j = Cardinality(zs)
      <4> HIDE DEF n
      <4> QED BY <1>1, <2>2
    <3> QED BY <2>2, <3>1, <3>2
  <2> QED BY <2>1, <2>2
<1> HIDE DEF n
<1>3. CASE k <= n /\ l <= n
  <2>1. k \in 1..n /\ l \in 1..n /\ KthOf(named, k) = KthOf(named, l)
    BY <1>2, <1>3
  <2> QED BY <1>1, <2>1, KthIsInjective DEF n
<1>4. CASE ~(k <= n) /\ ~(l <= n)
  BY <1>2, <1>4
<1>5. CASE (k <= n /\ ~(l <= n)) \/ (~(k <= n) /\ l <= n)
  BY <1>2, <1>5
<1> QED BY <1>3, <1>4, <1>5

LEMMA GatewayZoneFacts ==
  ASSUME TypeInv
  PROVE  /\ ZoneCount \in Nat
         /\ GatewayCount \in Nat
         /\ GatewayCount <= ZoneCount
         /\ ShouldCreateNatGateways => GatewayCount > 0
         /\ \A k \in 1..ZoneCount : GatewayZone(k) \in Optional(Nat)
         /\ \A k, l \in 1..ZoneCount : GatewayZone(k) = GatewayZone(l) => k = l
<1> DEFINE zs == ZonesOf(PrivateSubnets)
<1>1. request \in Requests
  BY DEF TypeInv
<1>2. /\ IsFiniteSet(zs) /\ zs \in SUBSET Optional(Nat) /\ Cardinality(zs) \in Nat
      /\ PrivateSubnets # {} => Cardinality(zs) > 0
  BY TypeSetFacts, ZonesFacts DEF PrivateSubnets
<1>3. ZoneCount \in Nat /\ (PrivateSubnets # {} => ZoneCount > 0)
  BY <1>1, <1>2, RequestFacts DEF ZoneCount
<1>4. /\ GatewayCount \in Nat
      /\ GatewayCount <= ZoneCount
      /\ ShouldCreateNatGateways => GatewayCount > 0
  BY <1>1, <1>3, RequestFacts DEF GatewayCount, LeastOf, ShouldCreateNatGateways
<1>5. CASE IsExplicit
  <2>1. \A k : GatewayZone(k) = KthAz(zs, k)
    BY <1>5 DEF GatewayZone
  <2>2. ZoneCount = Cardinality(zs)
    BY <1>5 DEF ZoneCount
  <2>3. \A k \in 1..ZoneCount : GatewayZone(k) \in Optional(Nat)
    BY <1>2, <2>1, <2>2, KthAzFacts
  <2>4. \A k, l \in 1..ZoneCount : GatewayZone(k) = GatewayZone(l) => k = l
    BY <1>2, <2>1, <2>2, KthAzIsInjective
  <2> QED BY <1>3, <1>4, <2>3, <2>4
<1>6. CASE ~IsExplicit
  <2>1. \A k : GatewayZone(k) = k
    BY <1>6 DEF GatewayZone
  <2>2. \A k \in 1..ZoneCount : k \in Optional(Nat)
    BY <1>3 DEF Optional
  <2> QED BY <1>3, <1>4, <2>1, <2>2
<1> QED BY <1>5, <1>6

(* In a computed layout every argument is described in all zones in turn,  *)
(* so that the first public subnets are those of the first zones.          *)
LEMMA ComputedPublic ==
  ASSUME DescribedInv, phase \in {"gateways", "routes", "built"}, ~IsExplicit,
         PublicSubnets # {}, NEW k \in 1..AzCount
  PROVE  KthOf(PublicSubnets, k) \in PublicIn(k)
<1> DEFINE P == PublicSubnets
           first == FirstOf(P)
           s == SpecOf(first)
           start == AzCount * (s - 1)
<1>1. request \in Requests /\ Checked /\ TypeInv
  BY DEF DescribedInv, TypeInv, PhaseInv
<1>2. AzCount \in Nat \ {0} /\ Len(request.subnets) \in Nat
  BY <1>1, RequestFacts
<1>3. Described = Len(request.subnets) * AzCount /\ Described \in Nat
  BY <1>1, DescribedFacts
<1>4. Len(subnets) = Described /\ DOMAIN subnets = 1..Described
  BY <1>1, LengthFacts DEF DescribedInv, DescriptionInv
<1>5. P \in SUBSET (1..Described) /\ P \in SUBSET Nat /\ IsFiniteSet(P)
  BY <1>1, <1>4, TypeSetFacts DEF PublicSubnets
<1>6. first \in P /\ \A i \in P : first <= i
  BY <1>5, FirstFacts
<1>7. /\ s \in 1..Len(request.subnets)
      /\ IndexOf(first) \in 0..(AzCount - 1)
      /\ first - 1 = AzCount * (s - 1) + IndexOf(first)
      /\ ArgumentOf(first) = Ordered(s)
  BY <1>1, <1>5, <1>6, SpecFacts
<1>8. Ordered(s).type = "public"
  BY <1>4, <1>5, <1>6, <1>7 DEF DescribedInv, DescriptionInv, AsDescribed, PublicSubnets, OfType
<1> HIDE DEF P, first, s
<1>9. start \in Nat /\ start + AzCount <= Described
  <2>1. s - 1 \in Nat /\ s <= Len(request.subnets)
    BY <1>2, <1>7
  <2>2. AzCount * s <= AzCount * Len(request.subnets)
    BY <1>2, <1>7, <2>1
  <2>3. AzCount * s = AzCount * (s - 1) + AzCount
    BY <1>2, <1>7
  <2> QED BY <1>2, <1>3, <2>1, <2>2, <2>3
<1> HIDE DEF start
(* The whole group of the first public subnet is public.                   *)
<1>10. ASSUME NEW j \in 1..AzCount
       PROVE  start + j \in P /\ subnets[start + j].zone = j
  <2> DEFINE p == start + j
  <2>1. p \in 1..Described /\ j - 1 \in 0..(AzCount - 1) /\ p - 1 \in Nat
    BY <1>2, <1>3, <1>9
  <2>2. p - 1 = AzCount * (s - 1) + (j - 1) /\ s - 1 \in Nat
    BY <1>2, <1>7, <1>9 DEF start
  <2> HIDE DEF p
  <2>3. (p - 1) \div AzCount = s - 1 /\ (p - 1) % AzCount = j - 1
    <3> DEFINE x == p - 1
               q == s - 1
               r == j - 1
    <3>1. x \in Nat /\ q \in Nat /\ r \in 0..(AzCount - 1) /\ x = AzCount * q + r
      BY <2>1, <2>2
    <3> HIDE DEF x, q, r
    <3>2. x \div AzCount = q /\ x % AzCount = r
      BY <1>2, <3>1, DivisionIsUnique
    <3> QED BY <3>2 DEF x, q, r
  <2>4. ArgumentOf(p) = Ordered(s) /\ IndexOf(p) = j - 1 /\ ZoneAt(p) = j
    BY <1>7, <2>1, <2>3 DEF ArgumentOf, IndexOf, ZoneAt
  <2>5. subnets[p].type = "public" /\ subnets[p].zone = j
    BY <1>4, <1>8, <2>1, <2>4 DEF DescribedInv, DescriptionInv, AsDescribed
  <2> QED BY <1>4, <2>1, <2>5 DEF p, P, PublicSubnets, OfType
<1>11. first = start + 1
  <2>1. start + 1 \in P
    BY <1>2, <1>10
  <2>2. first <= start + 1
    BY <1>6, <2>1
  <2>3. first - 1 = start + IndexOf(first) /\ IndexOf(first) \in Nat
    BY <1>2, <1>7 DEF start
  <2>4. first \in Nat
    BY <1>5, <1>6
  <2> QED BY <1>9, <2>2, <2>3, <2>4
<1>12. UpTo(P, start + k) = (start + 1)..(start + k)
  <2>1. \A i \in P : i \in Nat /\ start + 1 <= i
    BY <1>5, <1>6, <1>11
  <2>2. ASSUME NEW i \in (start + 1)..(start + k) PROVE i \in P
    <3>1. i - start \in 1..AzCount /\ start + (i - start) = i
      BY <1>2, <1>9
    <3> QED BY <1>10, <3>1
  <2> QED BY <1>2, <1>9, <2>1, <2>2 DEF UpTo
<1>13. Cardinality(UpTo(P, start + k)) = k
  <2>1. start + 1 \in Int /\ start + k \in Int /\ k >= 1
    BY <1>2, <1>9
  <2>2. Cardinality((start + 1)..(start + k)) =
          IF start + 1 > start + k THEN 0 ELSE (start + k) - (start + 1) + 1
    BY <2>1, FS_Interval
  <2> QED BY <1>2, <1>9, <1>12, <2>2
<1>14. KthOf(P, k) = start + k
  BY <1>5, <1>10, <1>13, KthIs
<1> QED BY <1>10, <1>14 DEF PublicIn, P

-----------------------------------------------------------------------------
(* The gateways.                                                           *)
Later == {"gateways", "routes", "built"}

PublicFor(k) == PublicIn(GatewayZone(k))
HasGatewayFor(k) == \E g \in DOMAIN gateways : gateways[g].zone = GatewayZone(k)

(* Gateway g was added for a zone that was visited, in a public subnet     *)
(* that is in the zone if there is one.                                    *)
Justified(g) ==
  \E k \in 1..visited : \E p \in PublicSubnets :
    /\ g = Gateway(subnets[p], GatewayZone(k))
    /\ PublicFor(k) # {} => p \in PublicFor(k)

GatewayInv ==
  phase \in Later =>
    /\ phase = "gateways" \/ visited > 0 => ShouldCreateNatGateways
    /\ phase # "gateways" /\ ShouldCreateNatGateways => visited = GatewayCount
    /\ visited <= GatewayCount
    /\ gateways = <<>> <=> visited = 0
    /\ \A g \in DOMAIN gateways : Justified(gateways[g])
    /\ \A g, h \in DOMAIN gateways : gateways[g].zone = gateways[h].zone => g = h
    /\ \A k \in 1..visited : PublicFor(k) # {} => HasGatewayFor(k)
    /\ BorrowedSubnetsAreFree

Candidates ==
  IF IsExplicit THEN CandidatesFor(GatewayZone(visited + 1))
  ELSE {KthOf(PublicSubnets, (visited % AzCount) + 1)}

LEMMA PublicInFacts ==
  ASSUME TypeInv, NEW zone
  PROVE  /\ PublicIn(zone) \in SUBSET PublicSubnets
         /\ PublicIn(zone) \in SUBSET DOMAIN subnets
         /\ PublicIn(zone) # {} => FirstOf(PublicIn(zone)) \in PublicIn(zone)
         /\ \A p \in PublicIn(zone) : subnets[p].zone = zone
<1>1. PublicIn(zone) \in SUBSET PublicSubnets /\ \A p \in PublicIn(zone) : subnets[p].zone = zone
  BY DEF PublicIn
<1>2. PublicIn(zone) \in SUBSET DOMAIN subnets
  BY <1>1, TypeSetFacts DEF PublicSubnets
<1>3. PublicIn(zone) \in SUBSET Nat /\ IsFiniteSet(PublicIn(zone))
  BY <1>2, TypeSetFacts
<1> QED BY <1>1, <1>2, <1>3, FirstFacts

LEMMA FreeFacts ==
  ASSUME TypeInv
  PROVE  /\ FirstOfZones \in SUBSET PublicSubnets
         /\ Free \in SUBSET PublicSubnets
         /\ \A p \in Free : ~HasGateway(subnets[p])
         /\ PublicSubnets # {} /\ gateways = <<>> => Free # {}
<1>1. ASSUME NEW zone \in ZonesOf(PublicSubnets)
      PROVE  FirstOf(PublicIn(zone)) \in PublicSubnets
  <2>1. PublicIn(zone) # {}
    BY DEF ZonesOf, PublicIn
  <2> QED BY <2>1, PublicInFacts
<1>2. FirstOfZones \in SUBSET PublicSubnets
  BY <1>1 DEF FirstOfZones
<1>3. Free \in SUBSET PublicSubnets /\ \A p \in Free : ~HasGateway(subnets[p])
  BY <1>2 DEF Free
<1>4. PublicSubnets # {} => FirstOfZones # {}
  BY DEF FirstOfZones, ZonesOf
<1>5. gateways = <<>> => Free = FirstOfZones
  <2> SUFFICES ASSUME gateways = <<>> PROVE Free = FirstOfZones
    OBVIOUS
  <2>1. DOMAIN gateways = {}
    OBVIOUS
  <2> QED BY <2>1 DEF Free, HasGateway
<1> QED BY <1>2, <1>3, <1>4, <1>5

(* Where the next gateway goes.                                            *)
LEMMA CandidateFacts ==
  ASSUME DescribedInv, GatewayInv, AddNatGateway
  PROVE  LET zone == GatewayZone(visited + 1)
         IN  /\ visited + 1 \in 1..GatewayCount
             /\ Candidates \in SUBSET PublicSubnets
             /\ Candidates # {} => FirstOf(Candidates) \in Candidates
             /\ PublicIn(zone) # {} =>
                  Candidates # {} /\ Candidates \in SUBSET PublicIn(zone)
             /\ ~IsExplicit => PublicIn(zone) # {}
             /\ PublicIn(zone) = {} => \A p \in Candidates : ~HasGateway(subnets[p])
             /\ gateways = <<>> => Candidates # {}
<1> DEFINE k == visited + 1
           zone == GatewayZone(k)
<1>1. /\ TypeInv /\ request \in Requests /\ phase = "gateways" /\ visited \in Nat
      /\ ShouldCreateNatGateways /\ PublicSubnets # {}
  BY DEF DescribedInv, TypeInv, GatewayInv, AddNatGateway, Later, ShouldCreateNatGateways
<1>2. k \in 1..GatewayCount /\ k \in 1..ZoneCount
  BY <1>1, GatewayZoneFacts DEF AddNatGateway
<1>3. PublicSubnets \in SUBSET DOMAIN subnets
  BY <1>1, TypeSetFacts DEF PublicSubnets
<1>4. ASSUME NEW S \in SUBSET PublicSubnets PROVE S # {} => FirstOf(S) \in S
  BY <1>1, <1>3, TypeSetFacts, FirstFacts
<1>5. CASE IsExplicit
  <2>1. Candidates = IF PublicIn(zone) # {} THEN PublicIn(zone) ELSE Free
    BY <1>5 DEF Candidates, CandidatesFor
  <2>2. Candidates \in SUBSET PublicSubnets
    BY <1>1, <2>1, PublicInFacts, FreeFacts
  <2>3. gateways = <<>> => Candidates # {}
    BY <1>1, <2>1, FreeFacts
  <2>4. PublicIn(zone) = {} => \A p \in Candidates : ~HasGateway(subnets[p])
    BY <1>1, <2>1, FreeFacts
  <2> HIDE DEF zone, k
  <2> QED BY <1>2, <1>4, <1>5, <2>1, <2>2, <2>3, <2>4 DEF zone, k
<1>6. CASE ~IsExplicit
  <2>1. zone = k /\ ZoneCount = AzCount /\ AzCount \in Nat \ {0}
    BY <1>1, <1>6, RequestFacts DEF GatewayZone, ZoneCount
  <2>2. (visited % AzCount) + 1 = k
    <3>1. visited < AzCount
      BY <1>1, <1>2, <2>1
    <3> QED BY <1>1, <2>1, <3>1
  <2>3. Candidates = {KthOf(PublicSubnets, k)}
    BY <1>6, <2>2 DEF Candidates
  <2>4. KthOf(PublicSubnets, k) \in PublicIn(k)
    BY <1>1, <1>2, <1>6, <2>1, ComputedPublic
  <2>5. Candidates # {} /\ Candidates \in SUBSET PublicIn(zone) /\ PublicIn(zone) # {}
    BY <2>1, <2>3, <2>4
  <2>6. Candidates \in SUBSET PublicSubnets
    BY <1>1, <2>5, PublicInFacts
  <2> HIDE DEF zone, k
  <2> QED BY <1>2, <1>4, <2>5, <2>6 DEF zone, k
<1> QED BY <1>5, <1>6

NewGateway == Gateway(subnets[FirstOf(Candidates)], GatewayZone(visited + 1))

LEMMA AddNatGatewayDoes ==
  ASSUME AddNatGateway
  PROVE  /\ phase = "gateways"
         /\ visited < GatewayCount
         /\ visited' = visited + 1
         /\ gateways' = IF Candidates = {} THEN gateways ELSE Append(gateways, NewGateway)
         /\ UNCHANGED <<phase, failure, subnets, splitMask, routes, turn>>
BY DEF AddNatGateway, Candidates, NewGateway

(* What depends on the request and the descriptions only.                  *)
LEMMA SameSubnets ==
  ASSUME UNCHANGED <<request, subnets>>
  PROVE  /\ IsExplicit' = IsExplicit
         /\ PublicSubnets' = PublicSubnets
         /\ PrivateSubnets' = PrivateSubnets
         /\ ShouldCreateNatGateways' = ShouldCreateNatGateways
         /\ GatewayCount' = GatewayCount
         /\ ZoneCount' = ZoneCount
         /\ \A k : GatewayZone(k)' = GatewayZone(k)
         /\ \A k : PublicFor(k)' = PublicFor(k)
         /\ \A S : ZonesOf(S)' = ZonesOf(S)
BY DEF PublicFor, IsExplicit, PublicSubnets, PrivateSubnets, OfType, ShouldCreateNatGateways,
       GatewayCount, ZoneCount, GatewayZone, PublicIn, ZonesOf, AzCount, LeastOf, KthAz

LEMMA NewGatewayFacts ==
  ASSUME DescribedInv, GatewayInv, AddNatGateway, Candidates # {}
  PROVE  LET p == FirstOf(Candidates)
             zone == GatewayZone(visited + 1)
         IN  /\ p \in PublicSubnets
             /\ p \in DOMAIN subnets
             /\ NewGateway = Gateway(subnets[p], zone)
             /\ NewGateway.publicSubnet = subnets[p].name
             /\ NewGateway.zone = zone
             /\ NewGateway \in [publicSubnet : SubnetNames, zone : Optional(Nat)]
             /\ PublicIn(zone) # {} => p \in PublicIn(zone)
             /\ PublicIn(zone) = {} => ~HasGateway(subnets[p])
<1> DEFINE p == FirstOf(Candidates)
           zone == GatewayZone(visited + 1)
<1>1. TypeInv /\ visited + 1 \in 1..ZoneCount
  <2>1. TypeInv /\ GatewayCount <= ZoneCount /\ GatewayCount \in Nat /\ ZoneCount \in Nat
    BY GatewayZoneFacts DEF DescribedInv
  <2> QED BY <2>1, CandidateFacts
<1>2. p \in PublicSubnets /\ p \in DOMAIN subnets
  BY <1>1, CandidateFacts, TypeSetFacts DEF PublicSubnets
<1>3. PublicIn(zone) # {} => p \in PublicIn(zone)
  BY CandidateFacts
<1>4. PublicIn(zone) = {} => ~HasGateway(subnets[p])
  BY CandidateFacts
<1>5. zone \in Optional(Nat) /\ subnets[p].name \in SubnetNames
  BY <1>1, <1>2, GatewayZoneFacts, LengthFacts DEF Subnet
<1>6. /\ NewGateway = [publicSubnet |-> subnets[p].name, zone |-> zone]
      /\ NewGateway = Gateway(subnets[p], zone)
  BY DEF NewGateway, Gateway
<1> HIDE DEF p, zone
<1>7. /\ NewGateway.publicSubnet = subnets[p].name /\ NewGateway.zone = zone
      /\ NewGateway \in [publicSubnet : SubnetNames, zone : Optional(Nat)]
  BY <1>5, <1>6
<1> QED BY <1>2, <1>3, <1>4, <1>6, <1>7 DEF p, zone

LEMMA AddNatGatewayDescribed ==
  ASSUME DescribedInv, GatewayInv, AddNatGateway, request' = request
  PROVE  DescribedInv'
<1> DEFINE G == [publicSubnet : SubnetNames, zone : Optional(Nat)]
<1>1. gateways' \in Seq(G)
  <2>1. gateways \in Seq(G)
    BY DEF DescribedInv, TypeInv
  <2>2. Candidates # {} => NewGateway \in G
    BY NewGatewayFacts
  <2>3. gateways' = IF Candidates = {} THEN gateways ELSE Append(gateways, NewGateway)
    BY AddNatGatewayDoes
  <2> HIDE DEF G
  <2> QED BY <2>1, <2>2, <2>3
<1>2. TypeInv'
  BY <1>1, AddNatGatewayDoes DEF DescribedInv, TypeInv
<1>3. PhaseInv'
  BY AddNatGatewayDoes, SameDescription DEF DescribedInv, PhaseInv
<1>4. UNCHANGED <<request, subnets, phase>> /\ phase = "gateways"
  BY AddNatGatewayDoes
<1> QED BY <1>2, <1>3, <1>4, KeepDescriptions

(* The zone that is visited has no gateway yet.                            *)
LEMMA ZoneIsNew ==
  ASSUME DescribedInv, GatewayInv, AddNatGateway
  PROVE  \A g \in DOMAIN gateways : gateways[g].zone # GatewayZone(visited + 1)
<1>1. /\ TypeInv /\ visited \in Nat
      /\ visited + 1 \in 1..ZoneCount /\ ZoneCount \in Nat
  <2>1. /\ TypeInv /\ GatewayCount <= ZoneCount /\ GatewayCount \in Nat /\ ZoneCount \in Nat
        /\ visited \in Nat
    BY GatewayZoneFacts DEF DescribedInv, TypeInv
  <2> QED BY <2>1, CandidateFacts
<1>2. ASSUME NEW g \in DOMAIN gateways PROVE gateways[g].zone # GatewayZone(visited + 1)
  <2>1. PICK k \in 1..visited : gateways[g].zone = GatewayZone(k)
    BY AddNatGatewayDoes DEF GatewayInv, Later, Justified, Gateway
  <2>2. k \in 1..ZoneCount /\ k # visited + 1
    BY <1>1
  <2> QED BY <1>1, <2>1, <2>2, GatewayZoneFacts
<1> QED BY <1>2

LEMMA AddNatGatewayInv ==
  ASSUME DescribedInv, GatewayInv, AddNatGateway, request' = request
  PROVE  GatewayInv'
<1> DEFINE k == visited + 1
           zone == GatewayZone(k)
           n == Len(gateways)
           p == FirstOf(Candidates)
<1>1. /\ TypeInv /\ visited \in Nat /\ visited' = k
      /\ k \in 1..GatewayCount /\ GatewayCount \in Nat
  BY AddNatGatewayDoes, CandidateFacts, GatewayZoneFacts DEF DescribedInv, TypeInv
<1>2. phase = "gateways" /\ phase' = "gateways" /\ UNCHANGED <<request, subnets>>
  BY AddNatGatewayDoes
<1>3. /\ n \in Nat /\ DOMAIN gateways = 1..n
      /\ Candidates = {} => gateways' = gateways
      /\ Candidates # {} =>
           /\ DOMAIN gateways' = 1..(n + 1)
           /\ \A g \in 1..n : gateways'[g] = gateways[g]
           /\ gateways'[n + 1] = NewGateway
  BY <1>1, LengthFacts, AddNatGatewayDoes DEF TypeInv
<1>4. /\ ShouldCreateNatGateways' /\ visited' <= GatewayCount'
      /\ visited' # 0
  BY <1>1, <1>2, SameSubnets DEF GatewayInv, Later
<1>5. gateways' # <<>>
  <2>1. CASE gateways = <<>>
    <3>1. Candidates # {}
      BY <2>1, CandidateFacts
    <3>2. n + 1 \in DOMAIN gateways'
      BY <1>3, <3>1
    <3> QED BY <3>2
  <2>2. CASE gateways # <<>>
    <3>1. n # 0
      BY <2>2 DEF DescribedInv, TypeInv
    <3>2. 1 \in DOMAIN gateways'
      BY <1>3, <3>1
    <3> QED BY <3>2
  <2> QED BY <2>1, <2>2
<1> HIDE DEF n
<1>6. ASSUME NEW g \in DOMAIN gateways' PROVE Justified(gateways[g])'
  <2>1. \A j \in 1..k : \A q \in PublicSubnets :
          gateways'[g] = Gateway(subnets[q], GatewayZone(j))
            /\ (PublicFor(j) # {} => q \in PublicFor(j))
          => Justified(gateways[g])'
    <3> HIDE DEF k
    <3> QED BY <1>1, <1>2, SameSubnets DEF Justified, Gateway
  <2>2. CASE g \in DOMAIN gateways /\ gateways'[g] = gateways[g]
    <3>1. Justified(gateways[g])
      BY <1>2, <2>2 DEF GatewayInv, Later
    <3>2. PICK j \in 1..visited, q \in PublicSubnets :
            /\ gateways[g] = Gateway(subnets[q], GatewayZone(j))
            /\ PublicFor(j) # {} => q \in PublicFor(j)
      BY <3>1 DEF Justified
    <3>3. j \in 1..k
      BY <1>1
    <3> HIDE DEF k
    <3> QED BY <2>1, <2>2, <3>2, <3>3
  <2>3. CASE ~(g \in DOMAIN gateways /\ gateways'[g] = gateways[g])
    <3>1. Candidates # {} /\ gateways'[g] = NewGateway
      BY <1>3, <2>3
    <3>2. /\ p \in PublicSubnets
          /\ gateways'[g] = Gateway(subnets[p], zone)
          /\ PublicIn(zone) # {} => p \in PublicIn(zone)
      BY <3>1, NewGatewayFacts
    <3>3. k \in 1..k
      BY <1>1
    <3>4. /\ gateways'[g] = Gateway(subnets[p], GatewayZone(k))
          /\ PublicFor(k) # {} => p \in PublicFor(k)
      BY <3>2 DEF PublicFor
    <3> HIDE DEF k, p
    <3> QED BY <2>1, <3>2, <3>3, <3>4
  <2> QED BY <2>2, <2>3
<1>7. ASSUME NEW g \in DOMAIN gateways', NEW h \in DOMAIN gateways',
             gateways'[g].zone = gateways'[h].zone
      PROVE  g = h
  <2>1. CASE Candidates = {}
    BY <1>2, <1>3, <1>7, <2>1 DEF GatewayInv, Later
  <2>2. CASE Candidates # {}
    <3>1. NewGateway.zone = zone
      BY <2>2, NewGatewayFacts
    <3>2. \A i \in 1..n : gateways[i].zone # zone
      BY <1>3, ZoneIsNew
    <3>3. \A i, j \in 1..n : gateways[i].zone = gateways[j].zone => i = j
      BY <1>2, <1>3 DEF GatewayInv, Later
    <3>4. (g \in 1..n \/ g = n + 1) /\ (h \in 1..n \/ h = n + 1)
      BY <1>3, <2>2
    <3> HIDE DEF zone
    <3> QED BY <1>3, <1>7, <2>2, <3>1, <3>2, <3>3, <3>4
  <2> QED BY <2>1, <2>2
<1>8. ASSUME NEW j \in 1..k, PublicFor(j) # {}
      PROVE  \E g \in DOMAIN gateways' : gateways'[g].zone = GatewayZone(j)
  <2>1. CASE j \in 1..visited
    <3>1. PICK g \in DOMAIN gateways : gateways[g].zone = GatewayZone(j)
      BY <1>2, <1>8, <2>1 DEF GatewayInv, Later, HasGatewayFor
    <3>2. g \in DOMAIN gateways' /\ gateways'[g] = gateways[g]
      BY <1>3
    <3> QED BY <3>1, <3>2
  <2>2. CASE j \notin 1..visited
    <3>1. j = k
      BY <1>1, <2>2
    <3>2. Candidates # {}
      BY <1>8, <3>1, CandidateFacts DEF PublicFor
    <3>3. n + 1 \in DOMAIN gateways' /\ gateways'[n + 1].zone = zone
      BY <1>3, <3>2, NewGatewayFacts
    <3> QED BY <3>1, <3>3
  <2> QED BY <2>1, <2>2
<1>9. ASSUME NEW g \in DOMAIN gateways', NEW h \in DOMAIN gateways', g < h,
             gateways'[g].publicSubnet = gateways'[h].publicSubnet
      PROVE  IsExplicit /\ PublicIn(gateways'[h].zone) # {}
  <2>1. CASE Candidates = {} \/ h \in 1..n
    <3>1. /\ g \in DOMAIN gateways /\ h \in DOMAIN gateways
          /\ gateways'[g] = gateways[g] /\ gateways'[h] = gateways[h]
      BY <1>3, <1>9, <2>1
    <3> QED BY <1>2, <1>9, <3>1 DEF GatewayInv, Later, BorrowedSubnetsAreFree
  <2>2. CASE Candidates # {} /\ h \notin 1..n
    <3>1. h = n + 1 /\ g \in 1..n /\ gateways'[h] = NewGateway /\ gateways'[g] = gateways[g]
      BY <1>3, <1>9, <2>2
    <3>2. NewGateway.publicSubnet = subnets[p].name /\ NewGateway.zone = zone
          /\ p \in DOMAIN subnets
      BY <2>2, NewGatewayFacts
    <3>3. HasGateway(subnets[p])
      BY <1>3, <1>9, <3>1, <3>2 DEF HasGateway
    <3>4. PublicIn(zone) # {}
      BY <2>2, <3>3, NewGatewayFacts
    <3>5. IsExplicit
      <4> SUFFICES ASSUME ~IsExplicit PROVE FALSE
        OBVIOUS
      <4>1. PICK j \in 1..visited, q \in PublicSubnets :
              /\ gateways[g] = Gateway(subnets[q], GatewayZone(j))
              /\ PublicFor(j) # {} => q \in PublicFor(j)
        BY <1>2, <1>3, <3>1 DEF GatewayInv, Later, Justified
      <4>2. GatewayZone(j) = j /\ zone = k
        BY DEF GatewayZone
      <4>3. gateways[g].publicSubnet = subnets[q].name /\ q \in DOMAIN subnets
        BY <1>1, <4>1, TypeSetFacts DEF Gateway, PublicSubnets
      <4>4. q = p
        BY <1>2, <1>9, <3>1, <3>2, <4>3, NamesDiffer
      <4>5. p \in PublicIn(zone) /\ subnets[p].zone = zone
        BY <1>1, <2>2, <3>4, NewGatewayFacts, PublicInFacts
      <4>6. PublicIn(j) # {}
        <5>1. /\ j \in 1..AzCount /\ PublicSubnets # {}
              /\ AzCount \in Nat
          BY <1>1, <4>1, GatewayZoneFacts, RequestFacts DEF TypeInv, ZoneCount
        <5>2. KthOf(PublicSubnets, j) \in PublicIn(j)
          BY <1>2, <5>1, ComputedPublic DEF DescribedInv
        <5> QED BY <5>2
      <4>7. subnets[q].zone = j
        BY <1>1, <4>1, <4>2, <4>6, PublicInFacts DEF PublicFor
      <4>8. j = k
        BY <4>2, <4>4, <4>5, <4>7
      <4> QED BY <1>1, <4>8
    <3> QED BY <3>1, <3>2, <3>4, <3>5
  <2> QED BY <2>1, <2>2
<1> HIDE DEF k
<1>10. BorrowedSubnetsAreFree'
  <2>1. ASSUME NEW z PROVE PublicIn(z)' = PublicIn(z)
    BY <1>2 DEF PublicIn, PublicSubnets, OfType
  <2> QED BY <1>2, <1>9, <2>1, SameSubnets DEF BorrowedSubnetsAreFree, PublicIn
<1>11. \A j \in 1..visited' : PublicFor(j)' # {} => HasGatewayFor(j)'
  BY <1>1, <1>2, <1>8, SameSubnets DEF HasGatewayFor
<1> QED BY <1>2, <1>4, <1>5, <1>6, <1>7, <1>10, <1>11 DEF GatewayInv, Later

-----------------------------------------------------------------------------
(* The routes.                                                             *)

(* Route r leads from a private subnet to a gateway, to that of its zone   *)
(* if there is one.                                                        *)
Leads(r) ==
  \E i \in PrivateSubnets :
    /\ r.privateSubnet = subnets[i].name
    /\ r.natGateway \in 0..(Len(gateways) - 1)
    /\ GatewaysFor(subnets[i].zone) # {} =>
         r.natGateway + 1 \in GatewaysFor(subnets[i].zone)

RoutedSubnets == {i \in PrivateSubnets : IsRouted(subnets[i])}

(* The subnets of zones without a gateway that were routed to gateway g.   *)
IsLent(i, g) ==
  /\ GatewaysFor(subnets[i].zone) = {}
  /\ \E r \in DOMAIN routes :
       /\ routes[r].privateSubnet = subnets[i].name
       /\ routes[r].natGateway + 1 = g

Lent(g) == {i \in PrivateSubnets : IsLent(i, g)}

(* Every gateway has had n turns, and the first ones of this round have    *)
(* had one more.                                                           *)
Shares(n) ==
  \A g \in DOMAIN gateways :
    Cardinality(Lent(g)) = n + (IF g <= turn % Len(gateways) THEN 1 ELSE 0)

RouteInv ==
  phase \in Later =>
    /\ phase = "gateways" => routes = <<>> /\ turn = 0
    /\ phase = "built" /\ gateways # <<>> => Unrouted = {}
    /\ gateways = <<>> => routes = <<>>
    /\ \A r \in DOMAIN routes : Leads(routes[r])
    /\ \A r, q \in DOMAIN routes :
         routes[r].privateSubnet = routes[q].privateSubnet => r = q
    /\ Len(routes) = Cardinality(RoutedSubnets)
    /\ phase # "gateways" => \E n \in Nat : Shares(n)

LEMMA PrivateFacts ==
  ASSUME TypeInv
  PROVE  /\ PrivateSubnets \in SUBSET DOMAIN subnets
         /\ IsFiniteSet(PrivateSubnets)
         /\ Unrouted \in SUBSET PrivateSubnets
         /\ RoutedSubnets = PrivateSubnets \ Unrouted
         /\ \A S \in SUBSET PrivateSubnets : IsFiniteSet(S) /\ Cardinality(S) \in Nat
<1>1. PrivateSubnets \in SUBSET DOMAIN subnets /\ IsFiniteSet(PrivateSubnets)
  BY TypeSetFacts DEF PrivateSubnets
<1>2. \A S \in SUBSET PrivateSubnets : IsFiniteSet(S) /\ Cardinality(S) \in Nat
  BY <1>1, FS_Subset, FS_CardinalityType
<1> QED BY <1>1, <1>2 DEF Unrouted, RoutedSubnets

LEMMA NextRoutedFacts ==
  ASSUME TypeInv, Unrouted # {}
  PROVE  NextRouted \in Unrouted
<1>1. Unrouted \in SUBSET DOMAIN subnets
  BY PrivateFacts
<1>2. \A S \in SUBSET Unrouted : S # {} => FirstOf(S) \in S
  BY <1>1, TypeSetFacts, FirstFacts
<1>3. CASE IsExplicit
  <2> DEFINE zs == ZonesOf(Unrouted)
             S == {i \in Unrouted : subnets[i].zone = KthAz(zs, 1)}
  <2>1. /\ IsFiniteSet(zs) /\ zs \in SUBSET Optional(Nat)
        /\ Cardinality(zs) \in Nat /\ Cardinality(zs) > 0
    BY <1>1, ZonesFacts
  <2>2. 1 \in 1..Cardinality(zs)
    BY <2>1
  <2>3. KthAz(zs, 1) \in zs
    BY <2>1, <2>2, KthAzFacts
  <2>4. S # {}
    BY <2>3 DEF ZonesOf
  <2>5. NextRouted = FirstOf(S)
    BY <1>3 DEF NextRouted
  <2>6. S \in SUBSET Unrouted
    OBVIOUS
  <2> HIDE DEF S
  <2> QED BY <1>2, <2>4, <2>5, <2>6
<1>4. CASE ~IsExplicit
  <2>1. NextRouted = FirstOf(Unrouted)
    BY <1>4 DEF NextRouted
  <2> QED BY <1>2, <2>1
<1> QED BY <1>3, <1>4

NextSubnet == subnets[NextRouted]
NextRoute == [privateSubnet |-> NextSubnet.name, natGateway |-> NatGatewayFor(NextSubnet.zone)]

LEMMA AddNatRouteDoes ==
  ASSUME AddNatRoute
  PROVE  /\ phase = "routes" /\ gateways # <<>> /\ Unrouted # {}
         /\ routes' = Append(routes, NextRoute)
         /\ turn' = IF GatewaysFor(NextSubnet.zone) # {} THEN turn ELSE turn + 1
         /\ UNCHANGED <<phase, failure, subnets, splitMask, visited, gateways>>
BY DEF AddNatRoute, NextSubnet, NextRoute

LEMMA NextRouteFacts ==
  ASSUME TypeInv, AddNatRoute
  PROVE  /\ Len(gateways) \in Nat \ {0}
         /\ NextRouted \in PrivateSubnets /\ NextRouted \in DOMAIN subnets
         /\ ~IsRouted(NextSubnet)
         /\ NextRoute.privateSubnet = NextSubnet.name
         /\ NextRoute.natGateway = NatGatewayFor(NextSubnet.zone)
         /\ NextRoute.natGateway \in 0..(Len(gateways) - 1)
         /\ GatewaysFor(NextSubnet.zone) # {} =>
              NextRoute.natGateway + 1 \in GatewaysFor(NextSubnet.zone)
         /\ GatewaysFor(NextSubnet.zone) = {} =>
              NextRoute.natGateway = turn % Len(gateways)
         /\ NextRoute \in [privateSubnet : SubnetNames, natGateway : Nat]
<1> DEFINE i == NextRouted
           zone == NextSubnet.zone
           n == Len(gateways)
<1>1. n \in Nat \ {0} /\ DOMAIN gateways = 1..n
  BY LengthFacts, AddNatRouteDoes DEF TypeInv
<1>2. i \in Unrouted
  BY AddNatRouteDoes, NextRoutedFacts
<1>3. i \in PrivateSubnets /\ i \in DOMAIN subnets /\ ~IsRouted(NextSubnet)
  BY <1>2, PrivateFacts DEF Unrouted, NextSubnet
<1>4. NextSubnet \in Subnet
  BY <1>3, LengthFacts DEF NextSubnet
<1>5. GatewaysFor(zone) \in SUBSET (1..n)
  BY <1>1 DEF GatewaysFor
<1>6. GatewaysFor(zone) # {} =>
        NatGatewayFor(zone) + 1 \in GatewaysFor(zone) /\ NatGatewayFor(zone) \in 0..(n - 1)
  <2> SUFFICES ASSUME GatewaysFor(zone) # {}
               PROVE  NatGatewayFor(zone) + 1 \in GatewaysFor(zone)
                        /\ NatGatewayFor(zone) \in 0..(n - 1)
    OBVIOUS
  <2> DEFINE c == CHOOSE x \in GatewaysFor(zone) : TRUE
  <2>1. c \in GatewaysFor(zone)
    OBVIOUS
  <2>2. NatGatewayFor(zone) = c - 1
    BY DEF NatGatewayFor
  <2> HIDE DEF c, n
  <2>3. c \in 1..n
    BY <1>5, <2>1
  <2>4. c - 1 \in 0..(n - 1) /\ (c - 1) + 1 = c
    BY <1>1, <2>3
  <2> QED BY <2>1, <2>2, <2>4
<1>7. GatewaysFor(zone) = {} =>
        NatGatewayFor(zone) = turn % n /\ NatGatewayFor(zone) \in 0..(n - 1)
  <2>1. turn % n \in 0..(n - 1)
    BY <1>1, DivisionFacts DEF TypeInv
  <2> QED BY <2>1 DEF NatGatewayFor, RoundRobin
<1>8. NatGatewayFor(zone) \in 0..(n - 1)
  BY <1>6, <1>7
<1>9. NextSubnet.name \in SubnetNames /\ NatGatewayFor(zone) \in Nat
  BY <1>1, <1>4, <1>8 DEF Subnet
<1>10. /\ NextRoute.privateSubnet = NextSubnet.name
       /\ NextRoute.natGateway = NatGatewayFor(zone)
       /\ NextRoute \in [privateSubnet : SubnetNames, natGateway : Nat]
  BY <1>9 DEF NextRoute
<1> QED BY <1>1, <1>3, <1>6, <1>7, <1>8, <1>10

LEMMA AddNatRouteDescribed ==
  ASSUME DescribedInv, AddNatRoute, request' = request
  PROVE  DescribedInv'
<1> DEFINE R == [privateSubnet : SubnetNames, natGateway : Nat]
<1>1. TypeInv
  BY DEF DescribedInv
<1>2. routes' \in Seq(R)
  <2>1. routes \in Seq(R) /\ NextRoute \in R /\ routes' = Append(routes, NextRoute)
    BY <1>1, NextRouteFacts, AddNatRouteDoes DEF TypeInv
  <2> HIDE DEF R
  <2> QED BY <2>1
<1>3. turn' \in Nat
  BY <1>1, AddNatRouteDoes DEF TypeInv
<1>4. TypeInv'
  BY <1>1, <1>2, <1>3, AddNatRouteDoes DEF TypeInv
<1>5. PhaseInv'
  BY AddNatRouteDoes, SameDescription DEF DescribedInv, PhaseInv
<1>6. UNCHANGED <<request, subnets, phase>> /\ phase = "routes"
  BY AddNatRouteDoes
<1> QED BY <1>4, <1>5, <1>6, KeepDescriptions

(* What depends on the gateways too.                                       *)
LEMMA SameGateways ==
  ASSUME UNCHANGED <<request, subnets, visited, gateways>>
  PROVE  /\ \A g : Justified(g)' <=> Justified(g)
         /\ \A k : HasGatewayFor(k)' <=> HasGatewayFor(k)
         /\ \A i : GatewaysFor(subnets[i].zone)' = GatewaysFor(subnets[i].zone)
         /\ BorrowedSubnetsAreFree' <=> BorrowedSubnetsAreFree
<1>1. UNCHANGED <<request, subnets>>
  OBVIOUS
<1>2. \A g : Justified(g)' <=> Justified(g)
  BY <1>1, SameSubnets DEF Justified, Gateway
<1>3. \A k : HasGatewayFor(k)' <=> HasGatewayFor(k)
  BY <1>1, SameSubnets DEF HasGatewayFor
<1>4. \A i : GatewaysFor(subnets[i].zone)' = GatewaysFor(subnets[i].zone)
  BY DEF GatewaysFor
<1>5. BorrowedSubnetsAreFree' <=> BorrowedSubnetsAreFree
  BY <1>1, SameSubnets DEF BorrowedSubnetsAreFree, PublicIn, OfType, PublicSubnets
<1> QED BY <1>2, <1>3, <1>4, <1>5

LEMMA KeepGateways ==
  ASSUME GatewayInv, UNCHANGED <<request, subnets, visited, gateways>>,
         phase \in Later \/ phase' \notin Later,
         phase' = "gateways" => phase = "gateways",
         phase' \in Later /\ phase' # "gateways" /\ phase = "gateways" =>
           visited = GatewayCount
  PROVE  GatewayInv'
<1> SUFFICES ASSUME phase' \in Later PROVE GatewayInv'
  BY DEF GatewayInv
<1>1. UNCHANGED <<request, subnets>>
  OBVIOUS
<1>2. /\ ShouldCreateNatGateways' = ShouldCreateNatGateways
      /\ GatewayCount' = GatewayCount
      /\ \A k : PublicFor(k)' = PublicFor(k)
  BY <1>1, SameSubnets
<1> QED BY <1>2, SameGateways DEF GatewayInv

LEMMA LentFacts ==
  ASSUME DescribedInv, RouteInv, AddNatRoute, request' = request,
         NEW g \in DOMAIN gateways
  PROVE  /\ IsFiniteSet(Lent(g)) /\ Cardinality(Lent(g)) \in Nat
         /\ NextRouted \notin Lent(g)
         /\ Lent(g)' = IF GatewaysFor(NextSubnet.zone) = {} /\ NextRoute.natGateway + 1 = g
                       THEN Lent(g) \cup {NextRouted} ELSE Lent(g)
<1>1. TypeInv /\ phase = "routes" /\ UNCHANGED <<request, subnets, visited, gateways, phase>>
  BY AddNatRouteDoes DEF DescribedInv
<1>2. IsFiniteSet(Lent(g)) /\ Cardinality(Lent(g)) \in Nat
  <2>1. Lent(g) \in SUBSET PrivateSubnets
    BY DEF Lent
  <2> QED BY <1>1, <2>1, PrivateFacts
<1>3. NextRouted \notin Lent(g)
  BY <1>1, NextRouteFacts DEF Lent, IsLent, IsRouted, NextSubnet
<1>4. /\ Len(routes) \in Nat /\ DOMAIN routes = 1..Len(routes)
      /\ DOMAIN routes' = 1..(Len(routes) + 1)
      /\ \A r \in 1..Len(routes) : routes'[r] = routes[r]
      /\ routes'[Len(routes) + 1] = NextRoute
  BY <1>1, AddNatRouteDoes, LengthFacts DEF TypeInv
<1>5. PrivateSubnets' = PrivateSubnets /\ PrivateSubnets \in SUBSET DOMAIN subnets
  BY <1>1, SameSubnets, PrivateFacts
<1>6. ASSUME NEW i \in PrivateSubnets
      PROVE  IsLent(i, g)' <=>
               \/ IsLent(i, g)
               \/ i = NextRouted /\ GatewaysFor(NextSubnet.zone) = {}
                    /\ NextRoute.natGateway + 1 = g
  <2>1. GatewaysFor(subnets[i].zone)' = GatewaysFor(subnets[i].zone)
    BY <1>1, SameGateways
  <2>2. NextRoute.privateSubnet = subnets[i].name <=> i = NextRouted
    BY <1>1, <1>5, NextRouteFacts, NamesDiffer DEF NextSubnet
  <2>3. (\E r \in DOMAIN routes' : routes'[r].privateSubnet = subnets[i].name
                                     /\ routes'[r].natGateway + 1 = g)
        <=> \/ \E r \in DOMAIN routes : routes[r].privateSubnet = subnets[i].name
                                          /\ routes[r].natGateway + 1 = g
            \/ i = NextRouted /\ NextRoute.natGateway + 1 = g
    BY <1>4, <2>2
  <2>4. i = NextRouted => subnets[i].zone = NextSubnet.zone
    BY DEF NextSubnet
  <2> QED BY <1>1, <2>1, <2>3, <2>4 DEF IsLent
<1>7. NextRouted \in PrivateSubnets
  BY <1>1, NextRouteFacts
<1> QED BY <1>2, <1>3, <1>5, <1>6, <1>7 DEF Lent

LEMMA AddNatRouteShares ==
  ASSUME DescribedInv, RouteInv, AddNatRoute, request' = request
  PROVE  \E n \in Nat : Shares(n)'
<1> DEFINE l == Len(gateways)
           t == turn % l
<1>1. /\ TypeInv /\ phase = "routes" /\ turn \in Nat /\ l \in Nat \ {0}
      /\ gateways' = gateways /\ DOMAIN gateways = 1..l
  BY AddNatRouteDoes, NextRouteFacts, LengthFacts DEF DescribedInv, TypeInv
<1>2. t \in 0..(l - 1)
  BY <1>1, DivisionFacts
<1>3. PICK n \in Nat : Shares(n)
  BY <1>1 DEF RouteInv, Later
<1>4. \A g \in DOMAIN gateways :
        Cardinality(Lent(g)) = n + (IF g <= t THEN 1 ELSE 0)
  BY <1>3 DEF Shares
<1>5. CASE GatewaysFor(NextSubnet.zone) # {}
  <2>1. turn' = turn /\ \A g \in DOMAIN gateways : Lent(g)' = Lent(g)
    BY <1>5, AddNatRouteDoes, LentFacts
  <2>2. Shares(n)'
    BY <1>1, <1>4, <2>1 DEF Shares
  <2> QED BY <2>2
<1>6. CASE GatewaysFor(NextSubnet.zone) = {}
  <2>1. turn' = turn + 1 /\ NextRoute.natGateway = t
    BY <1>1, <1>6, AddNatRouteDoes, NextRouteFacts
  <2>2. turn' % l = IF t = l - 1 THEN 0 ELSE t + 1
    BY <1>1, <2>1, NextTurn
  <2> HIDE DEF l, t
  <2>3. ASSUME NEW g \in DOMAIN gateways
        PROVE  Cardinality(Lent(g)') = n + (IF g <= t + 1 THEN 1 ELSE 0)
    <3>1. g \in Nat
      BY <1>1
    <3>2. CASE g = t + 1
      <4>1. Lent(g)' = Lent(g) \cup {NextRouted}
        BY <1>6, <2>1, <3>2, LentFacts
      <4>2. Cardinality(Lent(g)') = Cardinality(Lent(g)) + 1
        BY <4>1, LentFacts, FS_AddElement
      <4>3. Cardinality(Lent(g)) = n
        BY <1>2, <1>4, <3>2
      <4> QED BY <1>2, <3>2, <4>2, <4>3
    <3>3. CASE g # t + 1
      <4>1. Lent(g)' = Lent(g)
        BY <2>1, <3>3, LentFacts
      <4> QED BY <1>2, <1>4, <3>1, <3>3, <4>1
    <3> QED BY <3>2, <3>3
  <2>4. CASE t = l - 1
    <3>1. \A g \in DOMAIN gateways : g <= t + 1 /\ g > 0
      BY <1>1, <1>2, <2>4
    <3>2. \A g \in DOMAIN gateways' :
            Cardinality(Lent(g)') = (n + 1) + (IF g <= turn' % l THEN 1 ELSE 0)
      BY <1>1, <2>2, <2>3, <2>4, <3>1
    <3>3. Shares(n + 1)'
      BY <1>1, <3>2 DEF Shares, l
    <3> QED BY <3>3
  <2>5. CASE t # l - 1
    <3>1. \A g \in DOMAIN gateways' :
            Cardinality(Lent(g)') = n + (IF g <= turn' % l THEN 1 ELSE 0)
      BY <1>1, <2>2, <2>3, <2>5
    <3>2. Shares(n)'
      BY <1>1, <3>1 DEF Shares, l
    <3> QED BY <3>2
  <2> QED BY <2>4, <2>5
<1> QED BY <1>5, <1>6

LEMMA AddNatRouteInv ==
  ASSUME DescribedInv, GatewayInv, RouteInv, AddNatRoute, request' = request
  PROVE  GatewayInv' /\ RouteInv'
<1>1. /\ TypeInv /\ phase = "routes" /\ phase' = "routes" /\ gateways # <<>>
      /\ UNCHANGED <<request, subnets, visited, gateways>>
  BY AddNatRouteDoes DEF DescribedInv
<1>2. GatewayInv'
  BY <1>1, KeepGateways DEF Later
<1>3. /\ Len(routes) \in Nat /\ DOMAIN routes = 1..Len(routes)
      /\ Len(routes') = Len(routes) + 1
      /\ DOMAIN routes' = 1..(Len(routes) + 1)
      /\ \A r \in 1..Len(routes) : routes'[r] = routes[r]
      /\ routes'[Len(routes) + 1] = NextRoute
  BY <1>1, AddNatRouteDoes, LengthFacts DEF TypeInv
<1>4. PrivateSubnets' = PrivateSubnets /\ PrivateSubnets \in SUBSET DOMAIN subnets
  BY <1>1, SameSubnets, PrivateFacts
<1>5. /\ NextRouted \in PrivateSubnets /\ ~IsRouted(NextSubnet)
      /\ NextRoute.privateSubnet = NextSubnet.name
      /\ Leads(NextRoute)
  BY <1>1, NextRouteFacts DEF Leads, NextSubnet
<1>6. \A r : Leads(r)' <=> Leads(r)
  <2>1. \A i : GatewaysFor(subnets[i].zone)' = GatewaysFor(subnets[i].zone)
    BY <1>1, SameGateways
  <2> QED BY <1>1, <1>4, <2>1 DEF Leads
<1>7. \A r \in DOMAIN routes' : Leads(routes'[r])
  BY <1>1, <1>3, <1>5 DEF RouteInv, Later
<1>8. \A r, q \in DOMAIN routes' :
        routes'[r].privateSubnet = routes'[q].privateSubnet => r = q
  <2>1. \A r \in 1..Len(routes) : routes[r].privateSubnet # NextRoute.privateSubnet
    BY <1>3, <1>5 DEF IsRouted
  <2>2. \A r, q \in 1..Len(routes) :
          routes[r].privateSubnet = routes[q].privateSubnet => r = q
    BY <1>1, <1>3 DEF RouteInv, Later
  <2> QED BY <1>3, <2>1, <2>2
<1>9. RoutedSubnets' = RoutedSubnets \cup {NextRouted}
  <2>1. ASSUME NEW i \in PrivateSubnets
        PROVE  IsRouted(subnets[i])' <=> IsRouted(subnets[i]) \/ i = NextRouted
    <3>1. NextRoute.privateSubnet = subnets[i].name <=> i = NextRouted
      BY <1>1, <1>4, <1>5, NamesDiffer DEF NextSubnet
    <3> QED BY <1>1, <1>3, <3>1 DEF IsRouted
  <2> QED BY <1>4, <1>5, <2>1 DEF RoutedSubnets
<1>10. Len(routes') = Cardinality(RoutedSubnets')
  <2>1. NextRouted \notin RoutedSubnets
    BY <1>5 DEF RoutedSubnets, NextSubnet
  <2>2. RoutedSubnets \in SUBSET PrivateSubnets
    BY DEF RoutedSubnets
  <2>3. IsFiniteSet(RoutedSubnets)
    BY <1>1, <2>2, PrivateFacts
  <2>4. Cardinality(RoutedSubnets') = Cardinality(RoutedSubnets) + 1
    BY <1>9, <2>1, <2>3, FS_AddElement
  <2> QED BY <1>1, <1>3, <2>4 DEF RouteInv, Later
<1>11. \E n \in Nat : Shares(n)'
  BY AddNatRouteShares
<1>12. RouteInv'
  BY <1>1, <1>6, <1>7, <1>8, <1>10, <1>11 DEF RouteInv
<1> QED BY <1>2, <1>12

(* The masks that fit have a least one: the widest blocks.                 *)
LEMMA SplitMaskFacts ==
  ASSUME FittingMasks # {}
  PROVE  /\ SplitMask \in FittingMasks
         /\ SplitMask \in Masks
         /\ \A n \in FittingMasks : SplitMask <= n
<1>1. FittingMasks \in SUBSET Masks /\ Masks \in SUBSET Nat
  BY DEF FittingMasks, Masks
<1>2. IsFiniteSet(FittingMasks)
  <2>1. IsFiniteSet(Masks)
    BY WidthAssumption, FS_Interval DEF Masks
  <2> QED BY <1>1, <2>1, FS_Subset
<1>3. FittingMasks \in SUBSET Nat
  BY <1>1
<1>4. /\ FirstOf(FittingMasks) \in FittingMasks
      /\ \A n \in FittingMasks : FirstOf(FittingMasks) <= n
  BY <1>2, <1>3, FirstFacts
<1> QED BY <1>1, <1>4 DEF SplitMask

LEMMA SplitRemainderDescribed ==
  ASSUME DescribedInv, SplitRemainder, request' = request PROVE DescribedInv'
<1>1. phase = "describing" /\ UNCHANGED <<subnets, visited, gateways, routes, turn>>
  BY DEF SplitRemainder, Fail
<1>2. CASE TooSmallToSplit
  <2>1. phase' = "failed" /\ failure' = "split" /\ splitMask' = splitMask
    BY <1>2 DEF SplitRemainder, Fail
  <2>2. TypeInv'
    BY <1>1, <2>1 DEF DescribedInv, TypeInv, Optional, Failures
  <2>3. PhaseInv'
    BY <1>1, <2>1 DEF DescribedInv, PhaseInv
  <2> QED BY <1>1, <2>1, <2>2, <2>3, KeepDescriptions
<1>3. CASE ~TooSmallToSplit
  <2>1. splitMask' = SplitMask /\ UNCHANGED <<phase, failure>>
    BY <1>3 DEF SplitRemainder
  <2>2. FittingMasks # {}
    BY <1>3 DEF TooSmallToSplit
  <2>3. SplitMask \in Masks
    BY <2>2, SplitMaskFacts
  <2>4. splitMask' \in Masks
    BY <2>1, <2>3
  <2>5. TypeInv'
    BY <1>1, <2>1, <2>4 DEF DescribedInv, TypeInv, Optional
  <2>6. PhaseInv'
    BY <1>1, <2>1, SameDescription DEF DescribedInv, PhaseInv
  <2> QED BY <1>1, <2>1, <2>5, <2>6, KeepDescriptions
<1> QED BY <1>2, <1>3

LEMMA DescribeSubnetDescribed ==
  ASSUME DescribedInv, DescribeSubnet, request' = request PROVE DescribedInv'
<1> DEFINE p == Len(subnets) + 1
           s == request.subnets[p]
           d == [name |-> NameOf(s, Len(subnets)), type |-> s.type,
                 zone |-> s.location.zone, block |-> Undefined]
<1>1. /\ phase = "describing" /\ IsExplicit /\ Len(subnets) < Len(request.subnets)
      /\ subnets' = Append(subnets, d)
      /\ UNCHANGED <<phase, failure, splitMask, visited, gateways, routes, turn>>
  BY DEF DescribeSubnet
<1>2. request \in Requests /\ Checked /\ Len(subnets) \in Nat /\ TypeInv
  BY <1>1, LengthFacts DEF DescribedInv, TypeInv, PhaseInv
<1>3. p \in 1..Described /\ Described = Len(request.subnets) /\ Described \in Nat
      /\ p - 1 = Len(subnets)
  BY <1>1, <1>2, DescribedFacts
<1>4. ArgumentOf(p) = s /\ IndexOf(p) = Len(subnets) /\ ZoneAt(p) = s.location.zone
  BY <1>1, <1>3 DEF ArgumentOf, IndexOf, ZoneAt
<1>5. /\ ArgumentOf(p).type \in Types /\ ZoneAt(p) \in Optional(Nat)
      /\ NameOf(ArgumentOf(p), IndexOf(p)) \in SubnetNames
  BY <1>2, <1>3, ArgumentFacts DEF SubnetArgs
<1>6. d \in Subnet
  BY <1>4, <1>5 DEF Subnet, Optional
<1>7. /\ d.name = NameOf(ArgumentOf(p), IndexOf(p)) /\ d.type = ArgumentOf(p).type
      /\ d.zone = ZoneAt(p)
  BY <1>4
<1>8. splitMask' \in Optional(Masks)
  BY <1>1, <1>2 DEF TypeInv
<1> HIDE DEF d
<1> QED BY <1>1, <1>3, <1>6, <1>7, <1>8, AppendDescription

LEMMA PlanGatewaysDescribed ==
  ASSUME DescribedInv, PlanGateways, request' = request PROVE DescribedInv'
<1>1. /\ phase = "describing" /\ Len(subnets) = Described
      /\ UNCHANGED <<subnets, splitMask, visited, gateways, routes, turn>>
      /\ \/ phase' \in {"routes", "gateways"} /\ failure' = failure
         \/ phase' = "failed" /\ failure' = "count"
  BY DEF PlanGateways, GoTo, Fail, Described
<1>2. TypeInv'
  BY <1>1 DEF DescribedInv, TypeInv, Optional, Failures
<1>3. PhaseInv'
  BY <1>1, SameDescription DEF DescribedInv, PhaseInv
<1> QED BY <1>1, <1>2, <1>3, KeepDescriptions

LEMMA GatewaysDoneDescribed ==
  ASSUME DescribedInv, GatewaysDone, request' = request PROVE DescribedInv'
<1>1. /\ phase = "gateways" /\ phase' = "routes"
      /\ UNCHANGED <<failure, subnets, splitMask, visited, gateways, routes, turn>>
  BY DEF GatewaysDone, GoTo
<1>2. TypeInv'
  BY <1>1 DEF DescribedInv, TypeInv
<1>3. PhaseInv'
  BY <1>1, SameDescription DEF DescribedInv, PhaseInv
<1> QED BY <1>1, <1>2, <1>3, KeepDescriptions

LEMMA NoRoutes ==
  ASSUME TypeInv, routes = <<>>
  PROVE  /\ RoutedSubnets = {} /\ Cardinality(RoutedSubnets) = 0 /\ Len(routes) = 0
         /\ \A g : Lent(g) = {}
<1>1. DOMAIN routes = {} /\ Len(routes) = 0
  OBVIOUS
<1>2. RoutedSubnets = {} /\ \A g : Lent(g) = {}
  BY <1>1 DEF RoutedSubnets, IsRouted, Lent, IsLent
<1> QED BY <1>1, <1>2, FS_EmptySet

(* Before the first route.                                                 *)
LEMMA NoneShared0 ==
  ASSUME TypeInv, routes = <<>>, turn = 0
  PROVE  Shares(0)
<1>1. ASSUME NEW g \in DOMAIN gateways
      PROVE  Cardinality(Lent(g)) = 0 + (IF g <= turn % Len(gateways) THEN 1 ELSE 0)
  <2>1. g \in Nat \ {0} /\ Len(gateways) \in Nat \ {0}
    BY LengthFacts
  <2>2. turn % Len(gateways) = 0
    BY <2>1
  <2>3. Cardinality(Lent(g)) = 0
    BY NoRoutes, FS_EmptySet
  <2> QED BY <2>1, <2>2, <2>3
<1> QED BY <1>1 DEF Shares

LEMMA SameRoutes ==
  ASSUME UNCHANGED <<request, subnets, visited, gateways, routes, turn>>
  PROVE  /\ \A r : Leads(r)' <=> Leads(r)
         /\ RoutedSubnets' = RoutedSubnets
         /\ Unrouted' = Unrouted
         /\ \A n : Shares(n)' <=> Shares(n)
<1>1. PrivateSubnets' = PrivateSubnets
      /\ \A i : GatewaysFor(subnets[i].zone)' = GatewaysFor(subnets[i].zone)
  BY SameSubnets, SameGateways
<1>2. \A r : Leads(r)' <=> Leads(r)
  BY <1>1 DEF Leads
<1>3. RoutedSubnets' = RoutedSubnets /\ Unrouted' = Unrouted
  BY <1>1 DEF RoutedSubnets, Unrouted, IsRouted
<1>4. \A g : Lent(g)' = Lent(g)
  BY <1>1 DEF Lent, IsLent
<1> QED BY <1>2, <1>3, <1>4 DEF Shares

LEMMA PlanGatewaysInv ==
  ASSUME DescribedInv, PlanGateways, request' = request PROVE GatewayInv' /\ RouteInv'
<1>1. /\ phase = "describing"
      /\ UNCHANGED <<request, subnets, visited, gateways, routes, turn>>
      /\ gateways = <<>> /\ visited = 0 /\ routes = <<>> /\ turn = 0
      /\ \/ phase' = "routes" /\ ~ShouldCreateNatGateways
         \/ phase' = "gateways" /\ ShouldCreateNatGateways
         \/ phase' = "failed"
  BY DEF PlanGateways, GoTo, Fail, DescribedInv, PhaseInv
<1>2. DescribedInv' /\ TypeInv'
  BY PlanGatewaysDescribed DEF DescribedInv
<1>3. DOMAIN gateways = {} /\ DOMAIN routes = {} /\ DOMAIN gateways' = {} /\ DOMAIN routes' = {}
  BY <1>1
<1>4. /\ ShouldCreateNatGateways' = ShouldCreateNatGateways
      /\ GatewayCount' = GatewayCount
  BY <1>1, SameSubnets
<1>5. GatewayCount \in Nat
  BY GatewayZoneFacts DEF DescribedInv
<1>6. BorrowedSubnetsAreFree'
  BY <1>3 DEF BorrowedSubnetsAreFree
<1>7. GatewayInv'
  <2>1. \A j \in 1..visited' : FALSE
    BY <1>1
  <2>2. visited' <= GatewayCount' /\ visited' = 0 /\ gateways' = <<>>
    BY <1>1, <1>4, <1>5
  <2>3. /\ phase' = "gateways" => ShouldCreateNatGateways'
        /\ phase' \in Later /\ phase' # "gateways" => ~ShouldCreateNatGateways'
    BY <1>1, <1>4 DEF Later
  <2> QED BY <1>3, <1>6, <2>1, <2>2, <2>3 DEF GatewayInv
<1>8. Len(routes') = Cardinality(RoutedSubnets')
  BY <1>1, NoRoutes, SameRoutes DEF DescribedInv
<1>9. Shares(0)'
  BY <1>1, NoneShared0, SameRoutes DEF DescribedInv
<1>10. RouteInv'
  BY <1>1, <1>3, <1>8, <1>9 DEF RouteInv, Later
<1> QED BY <1>7, <1>10

LEMMA GatewaysDoneInv ==
  ASSUME DescribedInv, GatewayInv, RouteInv, GatewaysDone, request' = request
  PROVE  GatewayInv' /\ RouteInv'
<1>1. /\ phase = "gateways" /\ phase' = "routes" /\ visited = GatewayCount
      /\ UNCHANGED <<request, subnets, visited, gateways, routes, turn>>
  BY DEF GatewaysDone, GoTo
<1>2. GatewayInv'
  BY <1>1, KeepGateways DEF Later
<1>3. routes = <<>> /\ turn = 0 /\ TypeInv
  BY <1>1 DEF RouteInv, Later, DescribedInv
<1>4. Shares(0)
  BY <1>3, NoneShared0
<1>5. RouteInv'
  BY <1>1, <1>3, <1>4, SameRoutes DEF RouteInv, Later
<1> QED BY <1>2, <1>5

(* Every name is found: "Could not find ..." is never thrown.              *)
LEMMA NamesAreKnown ==
  ASSUME DescribedInv, GatewayInv, RouteInv, phase = "routes"
  PROVE  NamesAreFound
<1>1. TypeInv
  BY DEF DescribedInv
<1>2. ASSUME NEW i \in DOMAIN gateways
      PROVE  \E j \in PublicSubnets : subnets[j].name = gateways[i].publicSubnet
  BY DEF GatewayInv, Later, Justified, Gateway
<1>3. ASSUME NEW r \in DOMAIN routes
      PROVE  /\ \E j \in PrivateSubnets : subnets[j].name = routes[r].privateSubnet
             /\ routes[r].natGateway + 1 \in DOMAIN gateways
  <2>1. PICK j \in PrivateSubnets :
          /\ routes[r].privateSubnet = subnets[j].name
          /\ routes[r].natGateway \in 0..(Len(gateways) - 1)
    BY DEF RouteInv, Later, Leads
  <2>2. routes[r].natGateway + 1 \in 1..Len(gateways)
    BY <1>1, <2>1, LengthFacts
  <2> QED BY <1>1, <2>1, <2>2, LengthFacts
<1> QED BY <1>2, <1>3 DEF NamesAreFound

LEMMA PartitionInv ==
  ASSUME DescribedInv, GatewayInv, RouteInv, Partition, request' = request
  PROVE  DescribedInv' /\ GatewayInv' /\ RouteInv'
<1>1. /\ phase = "routes" /\ phase' = "built"
      /\ gateways # <<>> => Unrouted = {}
      /\ UNCHANGED <<request, subnets, visited, gateways, routes, turn>>
      /\ UNCHANGED <<failure, splitMask>>
  BY NamesAreKnown DEF Partition, GoTo
<1>2. TypeInv'
  BY <1>1 DEF DescribedInv, TypeInv
<1>3. PhaseInv'
  BY <1>1, SameDescription DEF DescribedInv, PhaseInv
<1>4. DescribedInv'
  BY <1>1, <1>2, <1>3, KeepDescriptions
<1>5. GatewayInv'
  BY <1>1, KeepGateways DEF Later
<1>6. RouteInv'
  BY <1>1, SameRoutes DEF RouteInv, Later
<1> QED BY <1>4, <1>5, <1>6

EgressInv == DescribedInv /\ GatewayInv /\ RouteInv

LEMMA EgressInit == Init => EgressInv
<1>1. Init => phase \notin Later
  BY DEF Init, Later
<1> QED BY <1>1, DescribedInit DEF EgressInv, GatewayInv, RouteInv

LEMMA EgressNext == EgressInv /\ [Next]_vars => EgressInv'
<1> SUFFICES ASSUME EgressInv, [Next]_vars PROVE EgressInv'
  OBVIOUS
<1>0. DescribedInv /\ GatewayInv /\ RouteInv
  BY DEF EgressInv
<1> USE <1>0
<1>a. phase' \notin Later => GatewayInv' /\ RouteInv'
  BY DEF GatewayInv, RouteInv
<1>1. CASE CheckLocations /\ UNCHANGED request
  <2>1. phase' \notin Later
    BY <1>1 DEF CheckLocations, Fail, GoTo, Later
  <2> QED BY <1>1, <1>a, <2>1, CheckLocationsDescribed DEF EgressInv
<1>2. CASE PlaceSubnet /\ UNCHANGED request
  <2>1. phase' \notin Later
    BY <1>2, PlaceSubnetDoes DEF Fail, Later
  <2> QED BY <1>2, <1>a, <2>1, PlaceSubnetDescribed DEF EgressInv
<1>3. CASE SplitRemainder /\ UNCHANGED request
  <2>1. phase' \notin Later
    BY <1>3 DEF SplitRemainder, Fail, Later
  <2> QED BY <1>3, <1>a, <2>1, SplitRemainderDescribed DEF EgressInv
<1>4. CASE DescribeSubnet /\ UNCHANGED request
  <2>1. phase' \notin Later
    BY <1>4 DEF DescribeSubnet, Later
  <2> QED BY <1>4, <1>a, <2>1, DescribeSubnetDescribed DEF EgressInv
<1>5. CASE PlanGateways /\ UNCHANGED request
  BY <1>5, PlanGatewaysDescribed, PlanGatewaysInv DEF EgressInv
<1>6. CASE AddNatGateway /\ UNCHANGED request
  <2>1. DescribedInv' /\ GatewayInv'
    BY <1>6, AddNatGatewayDescribed, AddNatGatewayInv
  <2>2. /\ phase = "gateways" /\ phase' = "gateways" /\ routes' = routes /\ turn' = turn
        /\ routes = <<>> /\ turn = 0
    BY <1>6, AddNatGatewayDoes DEF RouteInv, Later
  <2>3. Len(routes') = Cardinality(RoutedSubnets') /\ DOMAIN routes' = {}
    <3>1. Len(routes) = 0 /\ DOMAIN routes' = {} /\ RoutedSubnets' = {}
      BY <2>2 DEF RoutedSubnets, IsRouted
    <3> QED BY <2>2, <3>1, FS_EmptySet
  <2>4. RouteInv'
    BY <2>2, <2>3 DEF RouteInv
  <2> QED BY <2>1, <2>4 DEF EgressInv
<1>7. CASE GatewaysDone /\ UNCHANGED request
  BY <1>7, GatewaysDoneDescribed, GatewaysDoneInv DEF EgressInv
<1>8. CASE AddNatRoute /\ UNCHANGED request
  BY <1>8, AddNatRouteDescribed, AddNatRouteInv DEF EgressInv
<1>9. CASE Partition /\ UNCHANGED request
  BY <1>9, PartitionInv DEF EgressInv
<1>10. CASE UNCHANGED vars
  <2>1. UNCHANGED <<request, phase, failure, subnets, splitMask, visited, gateways,
                    routes, turn>>
    BY <1>10 DEF vars
  <2>2. TypeInv'
    BY <2>1 DEF DescribedInv, TypeInv
  <2>3. PhaseInv' /\ DescriptionInv'
    BY <2>1, SameDescription DEF DescribedInv, PhaseInv, DescriptionInv
  <2>4. GatewayInv'
    BY <2>1, KeepGateways DEF Later
  <2>5. RouteInv'
    BY <2>1, SameRoutes DEF RouteInv
  <2> QED BY <2>2, <2>3, <2>4, <2>5 DEF EgressInv, DescribedInv
<1> QED
  BY <1>1, <1>2, <1>3, <1>4, <1>5, <1>6, <1>7, <1>8, <1>9, <1>10 DEF Next

-----------------------------------------------------------------------------
(* What the invariant says of the egress.                                  *)
LEMMA SequenceOf ==
  ASSUME NEW S, NEW T, NEW s \in Seq(S), \A i \in DOMAIN s : s[i] \in T
  PROVE  s \in Seq(T)
OBVIOUS

LEMMA ElementOf ==
  ASSUME NEW S, NEW s \in Seq(S), NEW i \in DOMAIN s PROVE s[i] \in S
OBVIOUS

LEMMA EgressTyped == EgressInv => TypeOK
<1> SUFFICES ASSUME EgressInv PROVE TypeOK
  OBVIOUS
<1> DEFINE N == {subnets[i].name : i \in DOMAIN subnets}
           G == [publicSubnet : N, zone : Optional(Nat)]
           R == [privateSubnet : N, natGateway : 0..(Len(gateways) - 1)]
<1>1. DescribedInv /\ TypeInv /\ GatewayInv /\ RouteInv
  BY DEF EgressInv, DescribedInv
<1>2. phase \notin Later => gateways = <<>> /\ routes = <<>>
  BY <1>1 DEF DescribedInv, PhaseInv, TypeInv, Later
<1>3. gateways \in Seq(G)
  <2>1. ASSUME NEW g \in DOMAIN gateways PROVE gateways[g] \in G
    <3>1. phase \in Later
      BY <1>2, <2>1
    <3>2. PICK k \in 1..visited, p \in PublicSubnets :
            gateways[g] = Gateway(subnets[p], GatewayZone(k))
      BY <1>1, <3>1 DEF GatewayInv, Justified
    <3>3. p \in DOMAIN subnets
      BY <1>1, TypeSetFacts DEF PublicSubnets
    <3>4. gateways[g].publicSubnet \in N
      BY <3>2, <3>3 DEF Gateway
    <3>5. gateways[g] \in [publicSubnet : SubnetNames, zone : Optional(Nat)]
      <4>1. gateways \in Seq([publicSubnet : SubnetNames, zone : Optional(Nat)])
        BY <1>1 DEF TypeInv
      <4> QED BY <4>1, ElementOf
    <3> HIDE DEF N
    <3> QED BY <3>4, <3>5
  <2>2. gateways \in Seq([publicSubnet : SubnetNames, zone : Optional(Nat)])
    BY <1>1 DEF TypeInv
  <2> HIDE DEF G
  <2> QED BY <2>1, <2>2, SequenceOf
<1>4. routes \in Seq(R)
  <2>1. ASSUME NEW r \in DOMAIN routes PROVE routes[r] \in R
    <3>1. phase \in Later
      BY <1>2, <2>1
    <3>2. PICK i \in PrivateSubnets :
            /\ routes[r].privateSubnet = subnets[i].name
            /\ routes[r].natGateway \in 0..(Len(gateways) - 1)
      BY <1>1, <3>1 DEF RouteInv, Leads
    <3>3. i \in DOMAIN subnets
      BY <1>1, PrivateFacts
    <3>4. routes[r].privateSubnet \in N
      BY <3>2, <3>3
    <3>5. routes[r] \in [privateSubnet : SubnetNames, natGateway : Nat]
      <4>1. routes \in Seq([privateSubnet : SubnetNames, natGateway : Nat])
        BY <1>1 DEF TypeInv
      <4> QED BY <4>1, ElementOf
    <3> HIDE DEF N
    <3> QED BY <3>2, <3>4, <3>5
  <2>2. routes \in Seq([privateSubnet : SubnetNames, natGateway : Nat])
    BY <1>1 DEF TypeInv
  <2> HIDE DEF R
  <2> QED BY <2>1, <2>2, SequenceOf
<1> QED BY <1>1, <1>3, <1>4 DEF TypeOK, TypeInv

(* The gateways are empty or each private subnet of a built VPC has one    *)
(* route.                                                                  *)
LEMMA BuiltRoutes ==
  ASSUME EgressInv, phase = "built", gateways # <<>>
  PROVE  /\ \A i \in PrivateSubnets : IsRouted(subnets[i])
         /\ Len(routes) = Cardinality(PrivateSubnets)
<1>1. TypeInv /\ Unrouted = {} /\ Len(routes) = Cardinality(RoutedSubnets)
  BY DEF EgressInv, DescribedInv, RouteInv, Later
<1>2. RoutedSubnets = PrivateSubnets
  BY <1>1, PrivateFacts
<1> QED BY <1>1, <1>2 DEF Unrouted

LEMMA GatewaysExist ==
  ASSUME EgressInv, phase = "built", ShouldCreateNatGateways
  PROVE  gateways # <<>> /\ visited = GatewayCount
<1>1. TypeInv
  BY DEF EgressInv, DescribedInv
<1>2. GatewayCount > 0 /\ GatewayCount \in Nat
  BY <1>1, GatewayZoneFacts
<1>3. visited = GatewayCount /\ (gateways = <<>> <=> visited = 0)
  BY DEF EgressInv, GatewayInv, Later
<1> QED BY <1>2, <1>3

(* The gateway through which a private subnet leaves.                      *)
LEMMA GatewayOfFacts ==
  ASSUME EgressInv, phase = "built", gateways # <<>>, NEW i \in PrivateSubnets
  PROVE  \E r \in DOMAIN routes :
           /\ routes[r].privateSubnet = subnets[i].name
           /\ \A q \in DOMAIN routes : routes[q].privateSubnet = subnets[i].name => q = r
           /\ routes[r].natGateway + 1 \in DOMAIN gateways
           /\ GatewayOf(i) = gateways[routes[r].natGateway + 1]
           /\ GatewaysFor(subnets[i].zone) # {} =>
                routes[r].natGateway + 1 \in GatewaysFor(subnets[i].zone)
<1> DEFINE r == CHOOSE q \in DOMAIN routes : routes[q].privateSubnet = subnets[i].name
<1>1. DescribedInv /\ TypeInv /\ RouteInv /\ phase \in Later
  BY DEF EgressInv, DescribedInv, Later
<1>2. \E q \in DOMAIN routes : routes[q].privateSubnet = subnets[i].name
  BY BuiltRoutes DEF IsRouted
<1>3. r \in DOMAIN routes /\ routes[r].privateSubnet = subnets[i].name
  BY <1>2
<1>4. GatewayOf(i) = gateways[routes[r].natGateway + 1]
  BY DEF GatewayOf
<1> HIDE DEF r
<1>5. \A q \in DOMAIN routes : routes[q].privateSubnet = subnets[i].name => q = r
  BY <1>1, <1>3 DEF RouteInv
<1>6. PICK j \in PrivateSubnets :
        /\ routes[r].privateSubnet = subnets[j].name
        /\ routes[r].natGateway \in 0..(Len(gateways) - 1)
        /\ GatewaysFor(subnets[j].zone) # {} =>
             routes[r].natGateway + 1 \in GatewaysFor(subnets[j].zone)
  BY <1>1, <1>3 DEF RouteInv, Leads
<1>7. j = i
  <2>1. i \in DOMAIN subnets /\ j \in DOMAIN subnets
    BY <1>1, PrivateFacts
  <2> QED BY <1>1, <1>3, <1>6, <2>1, NamesDiffer DEF Later
<1>8. routes[r].natGateway + 1 \in DOMAIN gateways
  <2>1. Len(gateways) \in Nat /\ DOMAIN gateways = 1..Len(gateways)
    BY <1>1, LengthFacts
  <2> QED BY <1>6, <2>1
<1> QED BY <1>3, <1>4, <1>5, <1>6, <1>7, <1>8

LEMMA EveryPrivateRouted == EgressInv => EveryPrivateIsRouted
BY GatewaysExist, BuiltRoutes DEF EveryPrivateIsRouted

LEMMA OwnGateway == EgressInv => OwnGatewayIsInOwnZone
<1> SUFFICES ASSUME EgressInv, phase = "built", ShouldCreateNatGateways,
                    NEW i \in PrivateSubnets, NEW k \in 1..GatewayCount,
                    GatewayZone(k) = subnets[i].zone, PublicIn(subnets[i].zone) # {}
             PROVE  PlacedIn(GatewayOf(i)) = subnets[i].zone
  BY DEF OwnGatewayIsInOwnZone
<1> DEFINE zone == subnets[i].zone
<1>1. DescribedInv /\ TypeInv /\ GatewayInv /\ phase \in Later
  BY DEF EgressInv, DescribedInv, Later
<1>2. gateways # <<>> /\ visited = GatewayCount
  BY GatewaysExist
<1>3. GatewaysFor(zone) # {}
  <2>1. k \in 1..visited /\ PublicFor(k) # {}
    BY <1>2 DEF PublicFor
  <2>2. HasGatewayFor(k)
    BY <1>1, <2>1 DEF GatewayInv
  <2> QED BY <2>2 DEF HasGatewayFor, GatewaysFor
<1>4. PICK g \in DOMAIN gateways : GatewayOf(i) = gateways[g] /\ g \in GatewaysFor(zone)
  BY <1>2, <1>3, GatewayOfFacts
<1>5. gateways[g].zone = zone
  BY <1>4 DEF GatewaysFor
<1>6. PICK j \in 1..visited, p \in PublicSubnets :
        /\ gateways[g] = Gateway(subnets[p], GatewayZone(j))
        /\ PublicFor(j) # {} => p \in PublicFor(j)
  BY <1>1 DEF GatewayInv, Justified
<1>7. GatewayZone(j) = zone /\ gateways[g].publicSubnet = subnets[p].name
  BY <1>5, <1>6 DEF Gateway
<1>8. p \in PublicIn(zone)
  BY <1>6, <1>7 DEF PublicFor
<1>9. p \in DOMAIN subnets /\ subnets[p].zone = zone
  BY <1>1, <1>8, PublicInFacts
<1>10. \A q \in DOMAIN subnets : subnets[q].name = subnets[p].name => q = p
  BY <1>1, <1>9, NamesDiffer DEF Later
<1>11. (CHOOSE q \in DOMAIN subnets : subnets[q].name = gateways[g].publicSubnet) = p
  BY <1>7, <1>9, <1>10
<1>12. PlacedIn(gateways[g]) = subnets[p].zone
  BY <1>11 DEF PlacedIn
<1> QED BY <1>4, <1>9, <1>12

LEMMA EvenlyShared == EgressInv => RoundRobinIsEven
<1> DEFINE borrowed(g) ==
             {i \in PrivateSubnets :
                /\ GatewaysFor(subnets[i].zone) = {}
                /\ GatewayOf(i) = gateways[g]}
<1> SUFFICES ASSUME EgressInv, phase = "built", NEW g \in DOMAIN gateways,
                    NEW h \in DOMAIN gateways, gateways # <<>>
             PROVE  Cardinality(borrowed(g)) <= Cardinality(borrowed(h)) + 1
  BY DEF RoundRobinIsEven
<1>1. TypeInv /\ GatewayInv /\ RouteInv /\ phase \in Later
  BY DEF EgressInv, DescribedInv, Later
<1>2. ASSUME NEW x \in DOMAIN gateways PROVE borrowed(x) = Lent(x)
  <2> SUFFICES ASSUME NEW i \in PrivateSubnets, GatewaysFor(subnets[i].zone) = {}
               PROVE  GatewayOf(i) = gateways[x] <=> IsLent(i, x)
    BY DEF Lent, IsLent
  <2>1. PICK r \in DOMAIN routes :
          /\ routes[r].privateSubnet = subnets[i].name
          /\ \A q \in DOMAIN routes : routes[q].privateSubnet = subnets[i].name => q = r
          /\ routes[r].natGateway + 1 \in DOMAIN gateways
          /\ GatewayOf(i) = gateways[routes[r].natGateway + 1]
    BY GatewayOfFacts
  <2>2. GatewayOf(i) = gateways[x] <=> routes[r].natGateway + 1 = x
    BY <1>1, <2>1 DEF GatewayInv
  <2>3. IsLent(i, x) <=> routes[r].natGateway + 1 = x
    BY <2>1 DEF IsLent
  <2> QED BY <2>2, <2>3
<1>3. PICK n \in Nat : Shares(n)
  BY <1>1 DEF RouteInv
<1>4. /\ Cardinality(Lent(g)) = n + (IF g <= turn % Len(gateways) THEN 1 ELSE 0)
      /\ Cardinality(Lent(h)) = n + (IF h <= turn % Len(gateways) THEN 1 ELSE 0)
  BY <1>3 DEF Shares
<1>5. Cardinality(borrowed(g)) = Cardinality(Lent(g))
      /\ Cardinality(borrowed(h)) = Cardinality(Lent(h))
  BY <1>2
<1> HIDE DEF borrowed
<1> QED BY <1>4, <1>5

LEMMA BorrowedFree == EgressInv => BorrowedSubnetsAreFree
<1> SUFFICES ASSUME EgressInv PROVE BorrowedSubnetsAreFree
  OBVIOUS
<1>1. CASE phase \in Later
  BY <1>1 DEF EgressInv, GatewayInv
<1>2. CASE phase \notin Later
  <2>1. gateways = <<>>
    BY <1>2 DEF EgressInv, DescribedInv, PhaseInv, TypeInv, Later
  <2>2. DOMAIN gateways = {}
    BY <2>1
  <2> QED BY <2>2 DEF BorrowedSubnetsAreFree
<1> QED BY <1>1, <1>2

(* In every state of every layout: each private subnet of a VPC that was   *)
(* built with gateways has one route, through a gateway in its own zone    *)
(* where that zone could have one; no two zones share a public subnet for  *)
(* their gateways without need; and the round robin is even                *)
(* (vpcTopology.ts, createNatGateways and createNatRoutes).                *)
THEOREM EgressStaysSound == Spec => []EgressIsSound
<1>1. EgressInv => EgressIsSound
  BY EgressTyped, EveryPrivateRouted, OwnGateway, BorrowedFree, EvenlyShared
  DEF EgressIsSound
<1> QED BY EgressInit, EgressNext, <1>1, PTL DEF Spec

-----------------------------------------------------------------------------
(* The blocks.                                                             *)
LEMMA TimesMonotone ==
  ASSUME NEW a \in Nat, NEW b \in Nat, NEW c \in Nat, a <= b
  PROVE  a * c <= b * c
<1> DEFINE d == b - a
<1>1. d \in Nat /\ b = a + d
  OBVIOUS
<1> HIDE DEF d
<1>2. b * c = a * c + d * c /\ d * c \in Nat /\ a * c \in Nat
  BY <1>1
<1> QED BY <1>2

(* A number is below the next multiple.                                    *)
LEMMA BelowNextMultiple ==
  ASSUME NEW x \in Nat, NEW c \in Nat \ {0}, NEW s \in Nat, x \div c < s
  PROVE  x < c * s
<1> DEFINE q == x \div c
           r == x % c
<1>1. q \in Nat /\ r \in 0..(c - 1) /\ x = c * q + r
  BY DivisionFacts
<1> HIDE DEF q, r
<1>2. q + 1 <= s
  BY <1>1 DEF q
<1>3. (q + 1) * c <= s * c
  BY <1>1, <1>2, TimesMonotone
<1>4. (q + 1) * c = q * c + c /\ q * c = c * q /\ s * c = c * s
  BY <1>1
<1> QED BY <1>1, <1>3, <1>4

LEMMA MultipleFits ==
  ASSUME NEW x \in Nat, NEW c \in Nat \ {0}, NEW s \in Nat, s <= x \div c
  PROVE  c * s <= x
<1> DEFINE q == x \div c
           r == x % c
<1>1. q \in Nat /\ r \in 0..(c - 1) /\ x = c * q + r
  BY DivisionFacts
<1> HIDE DEF q, r
<1>2. s * c <= q * c
  BY <1>1, TimesMonotone DEF q
<1>3. q * c = c * q /\ s * c = c * s
  BY <1>1
<1> QED BY <1>1, <1>2, <1>3

(* A shorter mask is a larger block.                                       *)
LEMMA SizesNarrow ==
  ASSUME NEW m \in Masks, NEW n \in Masks, m < n
  PROVE  BlockSize[n] < BlockSize[m]
<1>1. m \in 0..Width /\ n \in 0..Width /\ n - 1 \in 0..(Width - 1) /\ n - 1 \in 0..Width
  BY WidthAssumption DEF Masks
<1>2. BlockSize[n - 1] = 2 * BlockSize[n]
  <2>1. BlockSize[n - 1] = 2 * BlockSize[(n - 1) + 1] /\ (n - 1) + 1 = n
    BY <1>1, BlockSizeAssumption
  <2> QED BY <2>1
<1>3. /\ BlockSize[m] \in Nat \ {0} /\ BlockSize[n] \in Nat \ {0}
      /\ BlockSize[n - 1] \in Nat \ {0}
  BY <1>1, BlockSizeAssumption
<1>4. BlockSize[m] % BlockSize[n - 1] = 0
  BY <1>1, BlockSizeAssumption
<1>5. PICK q \in Nat : BlockSize[m] = BlockSize[n - 1] * q
  BY <1>3, <1>4, MultipleIsProduct
<1>6. q # 0
  BY <1>3, <1>5
<1>7. BlockSize[n - 1] <= BlockSize[m]
  <2>1. 1 * BlockSize[n - 1] <= q * BlockSize[n - 1]
    BY <1>3, <1>6, TimesMonotone
  <2>2. q * BlockSize[n - 1] = BlockSize[n - 1] * q /\ 1 * BlockSize[n - 1] = BlockSize[n - 1]
    BY <1>3
  <2> QED BY <1>5, <2>1, <2>2
<1> QED BY <1>2, <1>3, <1>7

-----------------------------------------------------------------------------
(* The masks of the first p subnets narrow.                                *)
NarrowTo(p) ==
  \A i, j \in 1..p : i < j => subnets[i].block.mask <= subnets[j].block.mask

BlockOk(p) ==
  LET b == subnets[p].block
  IN  /\ b \in [base : Nat, mask : SubnetMasks]
      /\ request.vpc.base <= b.base
      /\ End(b) <= End(request.vpc)
      /\ NarrowTo(p) => b.base % BlockSize[b.mask] = 0

(* The blocks follow one another in the VPC, and are aligned as long as    *)
(* they narrow.                                                            *)
BlockInv ==
  phase \notin {"called", "failed"} /\ ~IsExplicit =>
    /\ \A p \in DOMAIN subnets : BlockOk(p)
    /\ \A p, q \in DOMAIN subnets :
         p < q => End(subnets[p].block) <= subnets[q].block.base

(* How many subnets state a mask, and where the others start.              *)
Masked == Cardinality(MaskedSubnets) * AzCount

SplitStart == IF Masked = 0 THEN request.vpc.base ELSE End(subnets[Masked].block)

Left == End(request.vpc) - SplitStart

(* The others take blocks of the size that was computed, one after another.*)
SplitInv ==
  splitMask # Undefined =>
    /\ ~IsExplicit
    /\ UnmaskedSubnets # {}
    /\ Masked <= Len(subnets)
    /\ \A p \in (Masked + 1)..Len(subnets) :
         End(subnets[p].block) = SplitStart + (p - Masked) * BlockSize[splitMask]
    /\ RequiredCidrBlockCount * BlockSize[splitMask] <= Left
    /\ 2 * RequiredCidrBlockCount * BlockSize[splitMask] > Left
    /\ failure # "room"

BlocksInv == EgressInv /\ BlockInv /\ SplitInv

LEMMA BlocksInit == Init => BlocksInv
BY EgressInit DEF Init, BlocksInv, BlockInv, SplitInv

LEMMA BlockFacts ==
  ASSUME BlockInv, TypeInv, phase \notin {"called", "failed"}, ~IsExplicit, NEW p \in DOMAIN subnets
  PROVE  LET b == subnets[p].block
         IN  /\ b.base \in Nat /\ b.mask \in SubnetMasks /\ b.mask \in Masks
             /\ BlockSize[b.mask] \in Nat \ {0}
             /\ End(b) = b.base + BlockSize[b.mask]
             /\ End(b) \in Nat
             /\ request.vpc.base <= b.base
             /\ End(b) <= End(request.vpc)
<1> DEFINE b == subnets[p].block
<1>1. BlockOk(p)
  BY DEF BlockInv
<1>2. /\ b \in [base : Nat, mask : SubnetMasks]
      /\ request.vpc.base <= b.base /\ End(b) <= End(request.vpc)
  BY <1>1 DEF BlockOk
<1>3. b.base \in Nat /\ b.mask \in SubnetMasks /\ b.mask \in Masks
  BY <1>2, SubnetMasksAssumption
<1>4. BlockSize[b.mask] \in Nat \ {0}
  BY <1>3, SizeFacts
<1> HIDE DEF b
<1>5. End(b) = b.base + BlockSize[b.mask] /\ End(b) \in Nat
  BY <1>3, <1>4 DEF End, Size
<1> QED BY <1>2, <1>3, <1>4, <1>5 DEF b

(* The next block starts in the VPC, where the last one ended.             *)
LEMMA NextStartFacts ==
  ASSUME BlockInv, TypeInv, phase = "describing", ~IsExplicit
  PROVE  /\ NextStart \in Nat
         /\ request.vpc.base <= NextStart
         /\ NextStart <= End(request.vpc)
         /\ End(request.vpc) = request.vpc.base + BlockSize[request.vpc.mask]
         /\ End(request.vpc) \in Nat
         /\ Len(subnets) = 0 => NextStart = request.vpc.base
         /\ Len(subnets) # 0 => NextStart = End(subnets[Len(subnets)].block)
         /\ \A q \in DOMAIN subnets : End(subnets[q].block) <= NextStart
<1>1. /\ request.vpc.base \in Nat /\ BlockSize[request.vpc.mask] \in Nat \ {0}
      /\ End(request.vpc) = request.vpc.base + BlockSize[request.vpc.mask]
  BY RequestFacts, SizeFacts DEF End, Size, TypeInv
<1>2. Len(subnets) \in Nat /\ DOMAIN subnets = 1..Len(subnets)
  BY LengthFacts
<1>3. CASE Len(subnets) = 0
  <2>1. subnets = <<>> /\ DOMAIN subnets = {}
    BY <1>2, <1>3 DEF TypeInv
  <2>2. NextStart = request.vpc.base
    BY <2>1 DEF NextStart
  <2> QED BY <1>1, <1>3, <2>1, <2>2
<1>4. CASE Len(subnets) # 0
  <2> DEFINE l == Len(subnets)
  <2>1. l \in DOMAIN subnets /\ subnets # <<>>
    BY <1>2, <1>4
  <2>2. NextStart = End(subnets[l].block)
    BY <2>1 DEF NextStart
  <2>3. /\ NextStart \in Nat /\ request.vpc.base <= NextStart /\ NextStart <= End(request.vpc)
        /\ subnets[l].block.base \in Nat /\ subnets[l].block.base <= NextStart
    BY <1>1, <2>1, <2>2, BlockFacts
  <2>4. ASSUME NEW q \in DOMAIN subnets PROVE End(subnets[q].block) <= NextStart
    <3>1. CASE q = l
      BY <2>2, <2>3, <3>1
    <3>2. CASE q # l
      <4>1. q < l
        BY <1>2, <3>2
      <4>2. End(subnets[q].block) <= subnets[l].block.base
        BY <2>1, <4>1 DEF BlockInv
      <4>3. End(subnets[q].block) \in Nat
        BY BlockFacts
      <4> QED BY <2>3, <4>2, <4>3
    <3> QED BY <3>1, <3>2
  <2> QED BY <1>1, <1>4, <2>2, <2>3, <2>4
<1> QED BY <1>3, <1>4

(* A block that narrows is aligned.                                        *)
LEMMA NextIsAligned ==
  ASSUME BlockInv, TypeInv, phase = "describing", ~IsExplicit,
         NEW mask \in SubnetMasks,
         NextStart + BlockSize[mask] <= End(request.vpc),
         NarrowTo(Len(subnets)),
         Len(subnets) # 0 => subnets[Len(subnets)].block.mask <= mask
  PROVE  NextStart % BlockSize[mask] = 0
<1>1. mask \in Masks /\ BlockSize[mask] \in Nat \ {0} /\ mask \in 0..Width
  BY SubnetMasksAssumption, SizeFacts
<1>2. CASE Len(subnets) = 0
  <2> DEFINE v == request.vpc.mask
  <2>1. /\ v \in Masks /\ BlockSize[v] \in Nat \ {0} /\ v \in 0..Width
        /\ request.vpc.base \in Nat /\ request.vpc.base % BlockSize[v] = 0
    BY RequestFacts, SizeFacts DEF TypeInv
  <2>2. NextStart = request.vpc.base
    BY <1>2, NextStartFacts
  <2>3. BlockSize[mask] <= BlockSize[v]
    BY <1>1, <2>1, <2>2, NextStartFacts
  <2>4. v <= mask
    <3>1. ~(mask < v)
      BY <1>1, <2>1, <2>3, SizesNarrow
    <3> QED BY <1>1, <2>1, <3>1
  <2>5. BlockSize[v] % BlockSize[mask] = 0
    BY <1>1, <2>1, <2>4, BlockSizeAssumption
  <2> QED BY <1>1, <2>1, <2>2, <2>5, MultipleOfMultiple
<1>3. CASE Len(subnets) # 0
  <2> DEFINE l == Len(subnets)
             b == subnets[l].block
  <2>1. l \in DOMAIN subnets
    BY <1>3, LengthFacts
  <2>2. /\ b.base \in Nat /\ b.mask \in Masks /\ BlockSize[b.mask] \in Nat \ {0}
        /\ NextStart = b.base + BlockSize[b.mask] /\ b.mask \in 0..Width
    BY <1>3, <2>1, BlockFacts, NextStartFacts, SizeFacts
  <2>3. b.base % BlockSize[b.mask] = 0
    BY <2>1 DEF BlockInv, BlockOk
  <2>4. BlockSize[b.mask] % BlockSize[b.mask] = 0
    BY <2>2
  <2>5. NextStart % BlockSize[b.mask] = 0
    BY <2>2, <2>3, <2>4, SumOfMultiples
  <2>6. BlockSize[b.mask] % BlockSize[mask] = 0
    BY <1>1, <1>3, <2>2, BlockSizeAssumption
  <2>7. NextStart \in Nat
    BY NextStartFacts
  <2> QED BY <1>1, <2>2, <2>5, <2>6, <2>7, MultipleOfMultiple
<1> QED BY <1>2, <1>3

(* What a step that leaves the request and the descriptions keeps.         *)
LEMMA SameBlocks ==
  ASSUME BlockInv, SplitInv, UNCHANGED <<request, subnets, splitMask>>,
         failure' # "room" \/ failure' = failure,
         phase' \notin {"called", "failed"} => phase \notin {"called", "failed"}
  PROVE  BlockInv' /\ SplitInv'
<1>1. \A p : BlockOk(p)' <=> BlockOk(p)
  BY DEF BlockOk, NarrowTo, End, Size
<1>2. BlockInv'
  BY <1>1 DEF BlockInv, IsExplicit, End, Size
<1>3. /\ Masked' = Masked /\ SplitStart' = SplitStart
      /\ Left' = Left /\ UnmaskedSubnets' = UnmaskedSubnets
      /\ RequiredCidrBlockCount' = RequiredCidrBlockCount
  BY DEF Masked, SplitStart, Left, MaskedSubnets, IsMasked, UnmaskedSubnets,
         RequiredCidrBlockCount, AzCount, End, Size
<1>4. SplitInv'
  BY <1>3 DEF SplitInv, IsExplicit, End, Size
<1> QED BY <1>2, <1>4

(* How many descriptions there are for the subnets with and without a mask.*)
LEMMA CountFacts ==
  ASSUME request \in Requests
  PROVE  /\ Masked \in Nat /\ RequiredCidrBlockCount \in Nat
         /\ Masked + RequiredCidrBlockCount = Len(request.subnets) * AzCount
         /\ UnmaskedSubnets # {} => RequiredCidrBlockCount > 0
<1> DEFINE M == Cardinality(MaskedSubnets)
           U == Cardinality(UnmaskedSubnets)
           a == AzCount
<1>1. /\ M \in Nat /\ U \in Nat /\ a \in Nat \ {0} /\ M + U = Len(request.subnets)
      /\ U = 0 <=> UnmaskedSubnets = {}
  BY MaskedFacts, RequestFacts
<1>2. Masked = M * a /\ RequiredCidrBlockCount = U * a
  BY DEF Masked, RequiredCidrBlockCount
<1> HIDE DEF M, U, a
<1>3. M * a \in Nat /\ U * a \in Nat /\ (M + U) * a = M * a + U * a
  BY <1>1
<1>4. U # 0 => U * a > 0
  <2> SUFFICES ASSUME U # 0 PROVE U * a > 0
    OBVIOUS
  <2>1. 1 * a <= U * a
    BY <1>1, TimesMonotone
  <2> QED BY <1>1, <2>1
<1>5. (M + U) * a = Len(request.subnets) * AzCount
  BY <1>1 DEF a
<1> QED BY <1>1, <1>2, <1>3, <1>4, <1>5

(* After those that state a mask, the others take the one computed.        *)
LEMMA NextMaskIsSplit ==
  ASSUME DescribedInv, phase = "describing", ~IsExplicit,
         Len(subnets) < Len(request.subnets) * AzCount, Masked <= Len(subnets)
  PROVE  NextMask = splitMask
<1> DEFINE p == Len(subnets) + 1
           M == Cardinality(MaskedSubnets)
           k == SpecOf(p)
           r == IndexOf(p)
           a == AzCount
<1>1. request \in Requests /\ Len(subnets) \in Nat
  BY LengthFacts DEF DescribedInv, TypeInv
<1>2. p \in 1..Described /\ p - 1 = Len(subnets)
  BY <1>1, DescribedFacts
<1>3. /\ k \in 1..Len(request.subnets) /\ r \in 0..(a - 1)
      /\ p - 1 = a * (k - 1) + r
  BY <1>1, <1>2, SpecFacts
<1>4. M \in Nat /\ a \in Nat \ {0} /\ Masked = M * a /\ Len(request.subnets) \in Nat
  BY <1>1, MaskedFacts, RequestFacts DEF Masked
<1>5. k = (Len(subnets) \div AzCount) + 1
  BY <1>2 DEF SpecOf
<1>6. ~(k <= M)
  <2> SUFFICES ASSUME k <= M PROVE FALSE
    OBVIOUS
  <2> HIDE DEF p, M, k, r, a
  <2>1. k - 1 \in Nat /\ (k - 1) + 1 <= M /\ k \in Nat
    BY <1>3, <1>4
  <2>2. k * a <= M * a
    BY <1>4, <2>1, TimesMonotone
  <2>3. k * a = a * (k - 1) + a
    BY <1>4, <2>1
  <2>4. p - 1 < k * a
    BY <1>3, <1>4, <2>1, <2>3
  <2>5. k * a \in Nat /\ M * a \in Nat
    BY <1>4, <2>1
  <2> QED BY <1>1, <1>2, <1>4, <2>2, <2>4, <2>5
<1>7. ~IsMasked(Ordered(k))
  BY <1>1, <1>3, <1>6, OrderedFacts
<1> QED BY <1>5, <1>7 DEF NextMask

(* The next block starts where as many blocks of that size end.            *)
LEMMA NextStartAfterSplit ==
  ASSUME DescribedInv, BlockInv, SplitInv, phase = "describing", ~IsExplicit,
         splitMask # Undefined
  PROVE  /\ SplitStart \in Nat
         /\ NextStart = SplitStart + (Len(subnets) - Masked) * BlockSize[splitMask]
<1>0. PICK l \in Nat : l = Len(subnets)
  BY LengthFacts DEF DescribedInv
<1>1. /\ TypeInv /\ l \in Nat /\ DOMAIN subnets = 1..l /\ Masked \in Nat /\ Masked <= l
      /\ request.vpc.base \in Nat
  BY <1>0, LengthFacts, CountFacts, RequestFacts DEF DescribedInv, TypeInv, SplitInv
<1>2. SplitStart \in Nat
  <2>1. CASE Masked = 0
    BY <1>1, <2>1 DEF SplitStart
  <2>2. CASE Masked # 0
    <3>1. Masked \in DOMAIN subnets
      BY <1>1, <2>2
    <3> QED BY <1>1, <2>2, <3>1, BlockFacts DEF SplitStart
  <2> QED BY <2>1, <2>2
<1>3. BlockSize[splitMask] \in Nat
  BY SizeFacts DEF DescribedInv, TypeInv, Optional
<1>4. CASE l = Masked
  <2>1. NextStart = SplitStart
    BY <1>0, <1>1, <1>4, NextStartFacts DEF SplitStart
  <2>2. l - Masked = 0
    BY <1>1, <1>4
  <2>3. (l - Masked) * BlockSize[splitMask] = 0
    BY <1>3, <2>2
  <2> QED BY <1>0, <1>2, <2>1, <2>3
<1>5. CASE l # Masked
  <2>1. l \in (Masked + 1)..Len(subnets) /\ l # 0
    BY <1>0, <1>1, <1>5
  <2>2. End(subnets[l].block) = SplitStart + (l - Masked) * BlockSize[splitMask]
    BY <2>1 DEF SplitInv
  <2>3. NextStart = End(subnets[l].block)
    BY <1>0, <1>1, <2>1, NextStartFacts
  <2> QED BY <1>0, <1>2, <2>2, <2>3
<1> QED BY <1>4, <1>5

(* So a subnet of the computed size is never refused.                      *)
LEMMA SplitFits ==
  ASSUME DescribedInv, BlockInv, SplitInv, phase = "describing", ~IsExplicit,
         splitMask # Undefined, NextMask \in SubnetMasks,
         Len(subnets) < Len(request.subnets) * AzCount
  PROVE  End(NextBlockAt(NextMask)) <= End(request.vpc)
<1> DEFINE l == Len(subnets)
           s == BlockSize[splitMask]
           c == RequiredCidrBlockCount
           n == l - Masked
<1>1. /\ TypeInv /\ l \in Nat /\ Masked \in Nat /\ Masked <= l /\ c \in Nat
      /\ Masked + c = Len(request.subnets) * AzCount
  BY LengthFacts, CountFacts DEF DescribedInv, TypeInv, SplitInv
<1>2. NextMask = splitMask
  BY NextMaskIsSplit DEF SplitInv
<1>3. s \in Nat
  BY <1>2, NextBlockFacts
<1>4. /\ SplitStart \in Nat /\ NextStart = SplitStart + n * s
      /\ End(NextBlockAt(NextMask)) = NextStart + s
  BY <1>2, NextStartAfterSplit, NextBlockFacts
<1>5. c * s <= Left /\ Left = End(request.vpc) - SplitStart /\ End(request.vpc) \in Nat
  BY <1>1, NextStartFacts DEF SplitInv, Left
<1>6. n \in Nat /\ n + 1 <= c
  BY <1>1
<1> HIDE DEF s, c, n, l
<1>7. (n + 1) * s <= c * s
  BY <1>1, <1>3, <1>6, TimesMonotone
<1>8. (n + 1) * s = n * s + s /\ n * s \in Nat /\ c * s \in Nat
  BY <1>1, <1>3, <1>6
<1> QED BY <1>3, <1>4, <1>5, <1>7, <1>8 DEF s

LEMMA PlaceSubnetBlocks ==
  ASSUME DescribedInv, BlockInv, SplitInv, PlaceSubnet, request' = request,
         ~Fail("mask"), ~Fail("room")
  PROVE  BlockInv' /\ SplitInv'
<1>0. PICK l \in Nat : l = Len(subnets)
  BY LengthFacts DEF DescribedInv
<1> DEFINE b == NextBlockAt(NextMask)
           z == BlockSize[NextMask]
<1>1. /\ phase = "describing" /\ ~IsExplicit /\ l < Len(request.subnets) * AzCount
      /\ NextMask \in SubnetMasks /\ ~(End(b) > End(request.vpc))
      /\ subnets' = Append(subnets, Placed)
      /\ UNCHANGED <<request, phase, failure, splitMask>>
  BY <1>0, PlaceSubnetDoes
<1>2. TypeInv /\ l \in Nat /\ DOMAIN subnets = 1..l /\ subnets \in Seq(Subnet)
  BY <1>0, LengthFacts DEF DescribedInv, TypeInv
<1>3. /\ DOMAIN subnets' = 1..(l + 1) /\ Len(subnets') = l + 1
      /\ \A p \in 1..l : subnets'[p] = subnets[p]
      /\ subnets'[l + 1] = Placed
  BY <1>0, <1>1, <1>2
<1>4. /\ Placed.block = b /\ b \in [base : Nat, mask : SubnetMasks]
      /\ b.base = NextStart /\ b.mask = NextMask
      /\ End(b) = NextStart + z /\ z \in Nat \ {0}
  BY <1>0, <1>1, PlacedFacts, NextBlockFacts DEF NextBlockAt
<1>5. /\ NextStart \in Nat /\ request.vpc.base <= NextStart /\ NextStart <= End(request.vpc)
      /\ End(request.vpc) \in Nat
      /\ \A q \in DOMAIN subnets : End(subnets[q].block) <= NextStart
  BY <1>1, <1>2, NextStartFacts
<1>6. ~IsExplicit'
  BY <1>1 DEF IsExplicit
<1>7. ASSUME NEW p \in 1..l PROVE BlockOk(p)'
  <2>1. BlockOk(p)
    BY <1>1, <1>2 DEF BlockInv
  <2>2. NarrowTo(p)' <=> NarrowTo(p)
    <3>1. \A i \in 1..p : subnets'[i] = subnets[i]
      BY <1>2, <1>3
    <3> QED BY <3>1 DEF NarrowTo
  <2> QED BY <1>1, <1>3, <2>1, <2>2 DEF BlockOk, End, Size
<1>8. BlockOk(l + 1)'
  <2>1. NarrowTo(l + 1)' => NextStart % z = 0
    <3> SUFFICES ASSUME NarrowTo(l + 1)' PROVE NextStart % z = 0
      OBVIOUS
    <3>1. NarrowTo(l)
      <4> SUFFICES ASSUME NEW i \in 1..l, NEW j \in 1..l, i < j
                   PROVE  subnets[i].block.mask <= subnets[j].block.mask
        BY DEF NarrowTo
      <4>1. i \in 1..(l + 1) /\ j \in 1..(l + 1)
        BY <1>2
      <4>2. subnets'[i].block.mask <= subnets'[j].block.mask
        BY <4>1 DEF NarrowTo
      <4> QED BY <1>3, <4>2
    <3>2. l # 0 => subnets[l].block.mask <= NextMask
      <4> SUFFICES ASSUME l # 0 PROVE subnets[l].block.mask <= NextMask
        OBVIOUS
      <4>1. l \in 1..l /\ l \in 1..(l + 1) /\ l + 1 \in 1..(l + 1) /\ l < l + 1
        BY <1>2
      <4>2. subnets'[l].block.mask <= subnets'[l + 1].block.mask
        BY <4>1 DEF NarrowTo
      <4> QED BY <1>3, <1>4, <4>1, <4>2
    <3>3. NextStart + z <= End(request.vpc)
      BY <1>1, <1>4, <1>5
    <3> QED BY <1>0, <1>1, <1>2, <3>1, <3>2, <3>3, NextIsAligned
  <2>2. subnets'[l + 1].block = b
    BY <1>3, <1>4
  <2>3. End(b) <= End(request.vpc)
    BY <1>1, <1>4, <1>5
  <2> HIDE DEF b, z
  <2>4. request' = request
    OBVIOUS
  <2>5. NarrowTo(l + 1)' => b.base % BlockSize[b.mask] = 0
    BY <1>4, <2>1 DEF z
  <2> QED BY <1>4, <1>5, <2>2, <2>3, <2>4, <2>5 DEF BlockOk, End, Size
<1>9. \A p \in DOMAIN subnets' : BlockOk(p)'
  <2>1. \A p \in 1..(l + 1) : p \in 1..l \/ p = l + 1
    BY <1>2
  <2> QED BY <1>3, <1>7, <1>8, <2>1
<1>10. ASSUME NEW p \in DOMAIN subnets', NEW q \in DOMAIN subnets', p < q
       PROVE  End(subnets[p].block)' <= (subnets[q].block.base)'
  <2>1. p \in 1..l /\ (q \in 1..l \/ q = l + 1)
    BY <1>2, <1>3, <1>10
  <2>2. End(subnets'[p].block) = End(subnets[p].block)
    BY <1>3, <2>1
  <2>3. CASE q \in 1..l
    <3>1. End(subnets[p].block) <= subnets[q].block.base
      BY <1>1, <1>2, <1>10, <2>1, <2>3 DEF BlockInv
    <3> QED BY <1>3, <2>2, <2>3, <3>1 DEF End, Size
  <2>4. CASE q = l + 1
    <3>1. End(subnets[p].block) <= NextStart
      BY <1>2, <1>5, <2>1
    <3> QED BY <1>3, <1>4, <2>2, <2>4, <3>1 DEF End, Size
  <2> QED BY <2>1, <2>3, <2>4
<1>11. BlockInv'
  BY <1>6, <1>9, <1>10 DEF BlockInv, End, Size
<1>12. SplitInv'
  <2> SUFFICES ASSUME splitMask' # Undefined PROVE SplitInv'
    BY DEF SplitInv
  <2>1. /\ splitMask # Undefined /\ UnmaskedSubnets # {} /\ Masked <= l /\ Masked \in Nat
        /\ \A p \in (Masked + 1)..l :
             End(subnets[p].block) = SplitStart + (p - Masked) * BlockSize[splitMask]
        /\ RequiredCidrBlockCount * BlockSize[splitMask] <= Left
        /\ 2 * RequiredCidrBlockCount * BlockSize[splitMask] > Left
        /\ failure # "room"
    BY <1>0, <1>1, <1>2, CountFacts DEF SplitInv, TypeInv
  <2>2. /\ Masked' = Masked /\ UnmaskedSubnets' = UnmaskedSubnets
        /\ RequiredCidrBlockCount' = RequiredCidrBlockCount
    BY DEF Masked, MaskedSubnets, IsMasked, UnmaskedSubnets, RequiredCidrBlockCount, AzCount
  <2>3. SplitStart' = SplitStart
    <3>1. Masked # 0 => subnets'[Masked] = subnets[Masked]
      BY <1>2, <1>3, <2>1
    <3> QED BY <2>2, <3>1 DEF SplitStart, End, Size
  <2>4. Left' = Left
    BY <2>3 DEF Left, End, Size
  <2>5. NextMask = splitMask
    BY <1>0, <1>1, <2>1, NextMaskIsSplit
  <2>6. SplitStart \in Nat /\ NextStart = SplitStart + (l - Masked) * BlockSize[splitMask]
    BY <1>0, <1>1, <2>1, NextStartAfterSplit
  <2>7. End(subnets'[l + 1].block)
          = SplitStart + ((l + 1) - Masked) * BlockSize[splitMask]
    <3> DEFINE n == l - Masked
               t == BlockSize[splitMask]
    <3>1. n \in Nat /\ (l + 1) - Masked = n + 1 /\ t \in Nat
      BY <1>2, <1>4, <2>1, <2>5
    <3>2. End(subnets'[l + 1].block) = (SplitStart + n * t) + t
      BY <1>3, <1>4, <2>5, <2>6
    <3> HIDE DEF n, t
    <3>3. (n + 1) * t = n * t + t /\ n * t \in Nat
      BY <3>1
    <3> QED BY <2>6, <3>1, <3>2, <3>3 DEF t
  <2>8. \A p \in (Masked + 1)..(l + 1) :
          End(subnets'[p].block) = SplitStart + (p - Masked) * BlockSize[splitMask]
    <3> SUFFICES ASSUME NEW p \in (Masked + 1)..(l + 1)
                 PROVE  End(subnets'[p].block)
                          = SplitStart + (p - Masked) * BlockSize[splitMask]
      OBVIOUS
    <3>1. CASE p = l + 1
      BY <2>7, <3>1
    <3>2. CASE p # l + 1
      <4>1. p \in (Masked + 1)..l /\ p \in 1..l
        BY <1>2, <2>1, <3>2
      <4> QED BY <1>3, <2>1, <4>1
    <3> QED BY <3>1, <3>2
  <2>9. Masked <= Len(subnets')
    BY <1>2, <1>3, <2>1
  <2> HIDE DEF b, z
  <2> QED BY <1>1, <1>3, <1>6, <2>1, <2>2, <2>3, <2>4, <2>8, <2>9 DEF SplitInv, End, Size
<1> QED BY <1>11, <1>12

LEMMA SplitRemainderBlocks ==
  ASSUME DescribedInv, BlockInv, SplitInv, SplitRemainder, ~TooSmallToSplit,
         request' = request
  PROVE  BlockInv' /\ SplitInv'
<1> DEFINE s == SplitMask
           c == RequiredCidrBlockCount
           left == AvailableIps
<1>1. /\ phase = "describing" /\ ~IsExplicit /\ UnmaskedSubnets # {}
      /\ splitMask' = SplitMask /\ Len(subnets) = Masked
      /\ UNCHANGED <<request, phase, failure, subnets>>
  BY DEF SplitRemainder, Masked
<1>2. TypeInv /\ request \in Requests /\ failure = Undefined
  BY <1>1 DEF DescribedInv, TypeInv, PhaseInv
<1>3. /\ NextStart \in Nat /\ End(request.vpc) \in Nat /\ NextStart <= End(request.vpc)
      /\ request.vpc.base <= NextStart
      /\ End(request.vpc) = request.vpc.base + BlockSize[request.vpc.mask]
  BY <1>1, <1>2, NextStartFacts
<1>4. left \in Nat /\ left <= BlockSize[request.vpc.mask] /\ left = End(request.vpc) - NextStart
  BY <1>2, <1>3, RequestFacts, SizeFacts DEF AvailableIps
<1>5. c \in Nat \ {0} /\ Masked \in Nat
  BY <1>1, <1>2, CountFacts
<1>6. FittingMasks # {}
  BY DEF TooSmallToSplit
<1>7. s \in FittingMasks /\ s \in Masks /\ \A n \in FittingMasks : s <= n
  BY <1>6, SplitMaskFacts
<1>8. BlockSize[s] \in Nat \ {0} /\ s \in 1..Width
  BY <1>7, SizeFacts DEF Masks
<1>9. SplitStart = NextStart
  <2>1. Len(subnets) = 0 => Masked = 0 /\ NextStart = request.vpc.base
    BY <1>1, <1>2, NextStartFacts
  <2>2. Len(subnets) # 0 => Masked # 0 /\ NextStart = End(subnets[Masked].block)
    BY <1>1, <1>2, NextStartFacts
  <2> QED BY <2>1, <2>2 DEF SplitStart
<1>10. Left = left
  BY <1>9 DEF Left, AvailableIps
<1>11. c * BlockSize[s] <= left
  <2>1. BlockSize[s] <= left \div c
    BY <1>7 DEF FittingMasks
  <2> HIDE DEF s, c, left
  <2> QED BY <1>4, <1>5, <1>8, <2>1, MultipleFits
<1>12. left < c * (2 * BlockSize[s])
  <2>1. CASE s = 1
    <3> DEFINE v == request.vpc.mask
    <3>1. v \in Masks /\ BlockSize[v] \in Nat \ {0} /\ 1 \in Masks
      BY <1>2, RequestFacts, SizeFacts, WidthAssumption DEF Masks
    <3>2. BlockSize[v] <= BlockSize[1]
      <4>1. CASE v = 1
        BY <3>1, <4>1
      <4>2. CASE v # 1
        <5>1. 1 < v
          BY <3>1, <4>2 DEF Masks
        <5>2. BlockSize[v] < BlockSize[1]
          BY <3>1, <5>1, SizesNarrow
        <5> QED BY <1>8, <2>1, <3>1, <5>2
      <4> QED BY <4>1, <4>2
    <3>3. left < 2 * BlockSize[s]
      BY <1>4, <1>8, <2>1, <3>1, <3>2
    <3> HIDE DEF s, c, left, v
    <3>4. 2 * BlockSize[s] \in Nat
      BY <1>8
    <3>5. 1 * (2 * BlockSize[s]) <= c * (2 * BlockSize[s])
      BY <1>5, <3>4, TimesMonotone
    <3>6. c * (2 * BlockSize[s]) \in Nat
      BY <1>5, <3>4
    <3> QED BY <1>4, <3>3, <3>4, <3>5, <3>6
  <2>2. CASE s # 1
    <3>1. s - 1 \in Masks /\ s - 1 \in 0..(Width - 1) /\ (s - 1) + 1 = s
      BY <1>8, <2>2, WidthAssumption DEF Masks
    <3>2. BlockSize[s - 1] = 2 * BlockSize[s]
      <4>1. BlockSize[s - 1] = 2 * BlockSize[(s - 1) + 1]
        BY <3>1, BlockSizeAssumption
      <4> QED BY <3>1, <4>1
    <3>3. s - 1 \notin FittingMasks
      BY <1>7, <1>8
    <3>4. ~(BlockSize[s - 1] <= left \div c)
      BY <3>1, <3>3 DEF FittingMasks
    <3> HIDE DEF s, c, left
    <3>5. left \div c \in Nat /\ 2 * BlockSize[s] \in Nat
      BY <1>4, <1>5, <1>8, DivisionFacts
    <3>6. left \div c < 2 * BlockSize[s]
      BY <3>2, <3>4, <3>5
    <3> QED BY <1>4, <1>5, <3>5, <3>6, BelowNextMultiple
  <2> QED BY <2>1, <2>2
<1>13. 2 * c * BlockSize[s] > left
  <2> HIDE DEF s, c, left
  <2>1. 2 * c * BlockSize[s] = c * (2 * BlockSize[s]) /\ c * (2 * BlockSize[s]) \in Nat
    BY <1>5, <1>8
  <2> QED BY <1>4, <1>12, <2>1
<1>14. failure # "room"
  BY <1>2, UndefinedAssumption DEF Failures
<1>15. BlockInv'
  <2>1. \A p : BlockOk(p)' <=> BlockOk(p)
    BY <1>1 DEF BlockOk, NarrowTo, End, Size
  <2> QED BY <1>1, <2>1 DEF BlockInv, IsExplicit, End, Size
<1>16. /\ Masked' = Masked /\ UnmaskedSubnets' = UnmaskedSubnets
       /\ RequiredCidrBlockCount' = RequiredCidrBlockCount
       /\ Left' = Left
  BY <1>1 DEF Masked, SplitStart, Left, MaskedSubnets, IsMasked, UnmaskedSubnets,
         RequiredCidrBlockCount, AzCount, End, Size
<1>17. SplitInv'
  <2>1. \A p \in (Masked + 1)..Len(subnets) : FALSE
    BY <1>1, <1>5
  <2>2. Masked <= Len(subnets)
    BY <1>1, <1>5
  <2> HIDE DEF s, c, left
  <2>3. /\ RequiredCidrBlockCount * BlockSize[splitMask'] <= Left
        /\ 2 * RequiredCidrBlockCount * BlockSize[splitMask'] > Left
    BY <1>1, <1>10, <1>11, <1>13 DEF s, c, left
  <2>4. ~IsExplicit'
    BY <1>1 DEF IsExplicit
  <2> QED BY <1>1, <1>14, <1>16, <2>1, <2>2, <2>3, <2>4 DEF SplitInv
<1> QED BY <1>15, <1>17

LEMMA BlocksNext == BlocksInv /\ [Next]_vars => BlocksInv'
<1> SUFFICES ASSUME BlocksInv, [Next]_vars PROVE BlocksInv'
  OBVIOUS
<1>0. /\ EgressInv /\ DescribedInv /\ TypeInv /\ PhaseInv /\ BlockInv /\ SplitInv /\ EgressInv'
      /\ (Next \/ UNCHANGED vars)
      /\ request' = request
  BY EgressNext DEF BlocksInv, EgressInv, DescribedInv, Next, vars
<1> USE <1>0
<1> SUFFICES BlockInv' /\ SplitInv'
  BY DEF BlocksInv
<1>1. CASE CheckLocations
  <2>1. /\ phase = "called" /\ subnets = <<>> /\ splitMask = Undefined
        /\ UNCHANGED <<subnets, splitMask>>
    BY <1>1 DEF CheckLocations, Fail, GoTo, PhaseInv
  <2>2. DOMAIN subnets' = {}
    BY <2>1
  <2> QED BY <2>1, <2>2 DEF BlockInv, SplitInv
<1>2. CASE PlaceSubnet
  <2>1. CASE Fail("mask")
    <3>1. UNCHANGED <<subnets, splitMask>> /\ phase' = "failed" /\ failure' = "mask"
      BY <2>1 DEF Fail
    <3> QED BY <3>1, SameBlocks
  <2>2. CASE ~Fail("mask") /\ Fail("room")
    <3>1. /\ UNCHANGED <<subnets, splitMask>> /\ phase' = "failed" /\ failure' = "room"
          /\ failure = Undefined /\ phase = "describing" /\ ~IsExplicit
          /\ Len(subnets) < Len(request.subnets) * AzCount
      BY <1>2, <2>2, PlaceSubnetDoes DEF Fail, PhaseInv
    <3>2. "room" # Undefined
      BY UndefinedAssumption DEF Failures
    <3>3. NextMask \in SubnetMasks /\ End(NextBlockAt(NextMask)) > End(request.vpc)
      BY <1>2, <2>2, <3>1, <3>2, PlaceSubnetDoes
    <3>4. splitMask = Undefined
      <4>1. ~(End(NextBlockAt(NextMask)) <= End(request.vpc))
        <5>1. End(NextBlockAt(NextMask)) \in Nat /\ End(request.vpc) \in Nat
          BY <3>1, <3>3, NextBlockFacts, NextStartFacts
        <5> QED BY <3>3, <5>1
      <4> QED BY <3>1, <3>3, <4>1, SplitFits
    <3> QED BY <3>1, <3>4 DEF BlockInv, SplitInv
  <2>3. CASE ~Fail("mask") /\ ~Fail("room")
    BY <1>2, <2>3, PlaceSubnetBlocks
  <2> QED BY <2>1, <2>2, <2>3
<1>3. CASE SplitRemainder
  <2>1. CASE TooSmallToSplit
    <3>1. UNCHANGED <<subnets, splitMask>> /\ phase' = "failed" /\ failure' = "split"
      BY <1>3, <2>1 DEF SplitRemainder, Fail
    <3> QED BY <3>1, SameBlocks
  <2>2. CASE ~TooSmallToSplit
    BY <1>3, <2>2, SplitRemainderBlocks
  <2> QED BY <2>1, <2>2
<1>4. CASE DescribeSubnet
  <2>1. IsExplicit /\ UNCHANGED splitMask
    BY <1>4 DEF DescribeSubnet
  <2>2. IsExplicit' /\ splitMask' = Undefined
    BY <2>1 DEF IsExplicit, SplitInv
  <2> QED BY <2>2 DEF BlockInv, SplitInv
<1>5. CASE PlanGateways
  <2>1. /\ UNCHANGED <<subnets, splitMask>> /\ phase = "describing"
        /\ failure' = failure \/ failure' = "count"
    BY <1>5 DEF PlanGateways, GoTo, Fail
  <2> QED BY <2>1, SameBlocks
<1>6. CASE AddNatGateway \/ GatewaysDone \/ AddNatRoute
  <2>1. /\ UNCHANGED <<subnets, splitMask, failure>>
        /\ phase \notin {"called", "failed"}
    BY <1>6 DEF AddNatGateway, GatewaysDone, AddNatRoute, GoTo
  <2> QED BY <2>1, SameBlocks
<1>7. CASE Partition
  <2>1. /\ UNCHANGED <<subnets, splitMask>> /\ phase = "routes"
        /\ failure' = failure \/ failure' = "name"
    BY <1>7 DEF Partition, GoTo, Fail
  <2> QED BY <2>1, SameBlocks
<1>8. CASE UNCHANGED vars
  BY <1>8, SameBlocks DEF vars
<1> QED BY <1>1, <1>2, <1>3, <1>4, <1>5, <1>6, <1>7, <1>8 DEF Next

(* In every state, subnets whose sizes narrow have blocks that are apart   *)
(* and inside the VPC although assignNextAvailableCidrBlock aligns none;   *)
(* and the mask that computeCidrMaskForSubnets divides the remainder with  *)
(* is the widest that fits: no subnet that takes it is refused for lack of *)
(* room, and blocks twice as large would not have fitted.                  *)
THEOREM BlocksStaySound == Spec => []BlocksAreSound
<1>1. BlocksInv => BlocksAreSound
  <2> SUFFICES ASSUME BlocksInv PROVE BlocksAreSound
    OBVIOUS
  <2>0. TypeInv /\ BlockInv /\ SplitInv
    BY DEF BlocksInv, EgressInv, DescribedInv
  <2>1. NarrowingBlocksAreDistinct
    <3> SUFFICES ASSUME phase \notin {"called", "failed"}, ~IsExplicit,
                        \A i, j \in DOMAIN subnets :
                          i < j => subnets[i].block.mask <= subnets[j].block.mask
                 PROVE  /\ NoneShared
                        /\ \A i \in DOMAIN subnets :
                             Inside(DenotedBy(subnets[i]), request.vpc)
      BY DEF NarrowingBlocksAreDistinct
    <3>1. ASSUME NEW p \in DOMAIN subnets
          PROVE  LET b == subnets[p].block
                     d == DenotedBy(subnets[p])
                 IN  d.base = b.base /\ End(d) = End(b) /\ Inside(d, request.vpc)
      <4> DEFINE b == subnets[p].block
      <4>1. \A i \in 1..p : i \in DOMAIN subnets
        BY <2>0, LengthFacts
      <4>2. NarrowTo(p)
        BY <4>1 DEF NarrowTo
      <4>3. b.base % BlockSize[b.mask] = 0
        BY <2>0, <4>2 DEF BlockInv, BlockOk
      <4>4. b.base \in Nat /\ request.vpc.base <= b.base /\ End(b) <= End(request.vpc)
        BY <2>0, BlockFacts
      <4>5. DenotedBy(subnets[p]) = [base |-> b.base - (b.base % BlockSize[b.mask]),
                                     mask |-> b.mask]
        BY DEF DenotedBy, Netmask
      <4> HIDE DEF b
      <4>6. DenotedBy(subnets[p]) = [base |-> b.base, mask |-> b.mask]
        BY <4>3, <4>4, <4>5
      <4>7. /\ DenotedBy(subnets[p]).base = b.base
            /\ End(DenotedBy(subnets[p])) = End(b)
        BY <4>6 DEF End, Size
      <4> QED BY <4>4, <4>7 DEF Inside, b
    <3>2. ASSUME NEW p \in DOMAIN subnets, NEW q \in DOMAIN subnets, p # q
          PROVE  Disjoint(DenotedBy(subnets[p]), DenotedBy(subnets[q]))
      <4>1. p < q \/ q < p
        BY <2>0, <3>2, LengthFacts
      <4>2. \/ End(subnets[p].block) <= subnets[q].block.base
            \/ End(subnets[q].block) <= subnets[p].block.base
        BY <2>0, <4>1 DEF BlockInv
      <4> QED BY <3>1, <4>2 DEF Disjoint
    <3> QED BY <3>1, <3>2 DEF NoneShared
  <2>2. SplitIsWidest
    BY <2>0 DEF SplitInv, SplitIsWidest, Left, SplitStart, Masked
  <2> QED BY <2>1, <2>2 DEF BlocksAreSound
<1> QED BY BlocksInit, BlocksNext, <1>1, PTL DEF Spec
============================================================================
