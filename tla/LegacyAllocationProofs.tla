----------------------- MODULE LegacyAllocationProofs -----------------------
(***************************************************************************)
(* The layout of the default strategy is regular for every list of specs,  *)
(* number of zones and width: LayoutIsRegular, which the conversion to     *)
(* "Auto" starts from.  The list which the conversion prints for a regular *)
(* layout leaves no address of a gap between two subnets out and moves no  *)
(* subnet: GapsAreFilled.  And Auto lays that list out as it was, in every *)
(* zone: AutoKeepsLayout.                                                  *)
(***************************************************************************)
EXTENDS LayoutConversion, FiniteSetTheorems, WellFoundedInduction, TLAPS

-----------------------------------------------------------------------------
(* Quotient and remainder of an address and a size.                        *)
LEMMA DivisionFacts ==
  ASSUME NEW x \in Nat, NEW s \in Nat \ {0}
  PROVE  /\ x % s \in 0..(s - 1)
         /\ x \div s \in Nat
         /\ x = s * (x \div s) + (x % s)
OBVIOUS

LEMMA MultipleIsProduct ==
  ASSUME NEW x \in Nat, NEW s \in Nat \ {0}, x % s = 0
  PROVE  \E q \in Nat : x = s * q
<1>1. x \div s \in Nat /\ x = s * (x \div s)
  BY DivisionFacts
<1> QED BY <1>1

LEMMA ProductIsMultiple ==
  ASSUME NEW q \in Nat, NEW s \in Nat \ {0}
  PROVE  (s * q) % s = 0
OBVIOUS

LEMMA MultipleOfMultiple ==
  ASSUME NEW x \in Nat, NEW t \in Nat \ {0}, NEW s \in Nat \ {0},
         x % t = 0, t % s = 0
  PROVE  x % s = 0
<1>1. PICK p \in Nat : x = t * p
  BY MultipleIsProduct
<1>2. PICK q \in Nat : t = s * q
  BY MultipleIsProduct
<1>3. x = s * (q * p) /\ q * p \in Nat
  BY <1>1, <1>2
<1> QED BY <1>3, ProductIsMultiple

LEMMA RemainderIsUnique ==
  ASSUME NEW s \in Nat \ {0}, NEW q \in Nat, NEW r \in 0..(s - 1)
  PROVE  (s * q + r) % s = r
<1> DEFINE x == s * q + r
<1>1. s * q \in Nat /\ x \in Nat /\ x = s * q + r
  OBVIOUS
<1> HIDE DEF x
<1> DEFINE d == x \div s
           e == x % s
<1>2. d \in Nat /\ e \in 0..(s - 1) /\ x = s * d + e
  BY <1>1, DivisionFacts
<1> HIDE DEF d, e
<1>3. s * d + e = s * q + r /\ s * d \in Nat
  BY <1>1, <1>2
<1>4. ~(d < q)
  <2> SUFFICES ASSUME d < q PROVE FALSE
    OBVIOUS
  <2>1. s * (d + 1) <= s * q /\ s * (d + 1) = s * d + s
    BY <1>2
  <2> QED BY <1>1, <1>2, <1>3, <2>1
<1>5. ~(q < d)
  <2> SUFFICES ASSUME q < d PROVE FALSE
    OBVIOUS
  <2>1. s * (q + 1) <= s * d /\ s * (q + 1) = s * q + s
    BY <1>2
  <2> QED BY <1>1, <1>2, <1>3, <2>1
<1>6. d = q
  BY <1>2, <1>4, <1>5
<1>7. e = r
  BY <1>1, <1>2, <1>3, <1>6
<1> QED BY <1>7 DEF e, x

(* Adding a multiple of the size leaves the remainder.                     *)
LEMMA RemainderOfSum ==
  ASSUME NEW x \in Nat, NEW k \in Nat, NEW s \in Nat \ {0}, k % s = 0
  PROVE  (x + k) % s = x % s
<1> DEFINE r == x % s
           d == x \div s
<1>1. r \in 0..(s - 1) /\ d \in Nat /\ x = s * d + r
  BY DivisionFacts
<1> HIDE DEF r, d
<1>2. PICK q \in Nat : k = s * q
  BY MultipleIsProduct
<1>3. d + q \in Nat /\ x + k = s * (d + q) + r
  BY <1>1, <1>2
<1>4. (s * (d + q) + r) % s = r
  BY <1>1, <1>3, RemainderIsUnique
<1> QED BY <1>3, <1>4 DEF r

-----------------------------------------------------------------------------
(* Blocks.                                                                 *)
LEMMA SizeFacts ==
  ASSUME NEW m \in Masks
  PROVE  m \in 0..Width /\ BlockSize[m] \in Nat \ {0}
BY WidthAssumption, BlockSizeAssumption DEF Masks

LEMMA WidthFacts == Width \in Masks /\ BlockSize[Width] = 1 /\ Width \in Nat
BY WidthAssumption, BlockSizeAssumption DEF Masks

(* The block that a cidr denotes.                                          *)
LEMMA BlockFacts ==
  ASSUME NEW c \in Cidr
  PROVE  /\ c.addr \in Nat /\ c.mask \in Masks
         /\ BlockOf(c) = [base |-> BlockOf(c).base, mask |-> c.mask]
         /\ BlockOf(c).base = c.addr - (c.addr % BlockSize[c.mask])
         /\ BlockOf(c).base \in Nat
         /\ BlockOf(c).base % BlockSize[c.mask] = 0
         /\ BlockOf(c).base <= c.addr
         /\ End(BlockOf(c)) = BlockOf(c).base + BlockSize[c.mask]
         /\ End(BlockOf(c)) \in Nat
         /\ c.addr < End(BlockOf(c))
<1>1. c.addr \in Nat /\ c.mask \in Masks /\ BlockSize[c.mask] \in Nat \ {0}
  BY SizeFacts DEF Cidr
<1>2. /\ BlockOf(c).base = c.addr - (c.addr % BlockSize[c.mask])
      /\ BlockOf(c).mask = c.mask
      /\ BlockOf(c) = [base |-> BlockOf(c).base, mask |-> c.mask]
  BY DEF BlockOf, Netmask
<1> DEFINE s == BlockSize[c.mask]
           x == c.addr
           r == x % s
           d == x \div s
<1>3. r \in 0..(s - 1) /\ d \in Nat /\ x = s * d + r
  BY <1>1, DivisionFacts
<1>4. s * d \in Nat /\ (s * d) % s = 0
  BY <1>1, <1>3, ProductIsMultiple
<1>5. x - r = s * d
  <2> HIDE DEF r, d, s, x
  <2> QED BY <1>1, <1>3, <1>4 DEF s, x
<1>6. End(BlockOf(c)) = BlockOf(c).base + s
  BY <1>2 DEF End, Size
<1> HIDE DEF d, r
<1>7. BlockOf(c).base = s * d
  BY <1>2, <1>5 DEF r
<1>8. PICK base \in Nat : base = s * d
  BY <1>4
<1>9. BlockOf(c).base = base /\ x = base + r /\ base % s = 0
  BY <1>3, <1>4, <1>7, <1>8
<1>10. base <= x /\ x < base + s /\ base + s \in Nat
  BY <1>1, <1>3, <1>9
<1> QED BY <1>1, <1>2, <1>6, <1>9, <1>10

(* An aligned address is its block's own.                                  *)
LEMMA AlignedBlock ==
  ASSUME NEW c \in Cidr, c.addr % BlockSize[c.mask] = 0
  PROVE  BlockOf(c).base = c.addr /\ End(BlockOf(c)) = c.addr + BlockSize[c.mask]
BY BlockFacts

(* Every size divides a single address.                                    *)
LEMMA SingleAddress ==
  ASSUME NEW c \in Cidr, c.mask = Width
  PROVE  BlockOf(c).base = c.addr /\ End(BlockOf(c)) = c.addr + 1
<1>1. c.addr \in Nat /\ BlockSize[c.mask] = 1
  BY BlockFacts, WidthFacts
<1>2. c.addr % 1 = 0
  BY <1>1
<1> QED BY <1>1, <1>2, AlignedBlock

(* nextBlock's choice is aligned and lies behind the previous block.       *)
LEMMA NextBlockFacts ==
  ASSUME NEW c \in Cidr, NEW m \in Masks
  PROVE  /\ NextBlockAfter(c, m) \in Cidr
         /\ NextBlockAfter(c, m).mask = m
         /\ ~IsOverlapping(c, NextBlockAfter(c, m))
<1> DEFINE e == End(BlockOf(c)) - 1
           d == [addr |-> e, mask |-> m]
           next == NextBlockAfter(c, m)
           s == BlockSize[m]
<1>1. e \in Nat /\ s \in Nat \ {0}
  BY BlockFacts, SizeFacts
<1>2. d \in Cidr
  BY <1>1 DEF Cidr
<1>3. next = [addr |-> End(BlockOf(d)), mask |-> m]
  BY DEF NextBlockAfter, BlockOf
<1>4. /\ BlockOf(d).base \in Nat /\ BlockOf(d).base % s = 0
      /\ End(BlockOf(d)) = BlockOf(d).base + s
      /\ e < End(BlockOf(d)) /\ End(BlockOf(d)) \in Nat
  BY <1>2, BlockFacts
<1>5. next \in Cidr /\ next.mask = m /\ next.addr = End(BlockOf(d))
  BY <1>3, <1>4 DEF Cidr
<1>6. s % s = 0
  BY <1>1
<1> HIDE DEF s, next, d, e
<1>7. next.addr % s = 0
  BY <1>1, <1>4, <1>5, <1>6, RemainderOfSum
<1>8. BlockOf(next).base = End(BlockOf(d))
  BY <1>5, <1>7, AlignedBlock DEF s
<1>9. End(BlockOf(c)) <= BlockOf(next).base
  BY <1>1, <1>4, <1>8, BlockFacts DEF e
<1> QED BY <1>5, <1>9 DEF IsOverlapping, Disjoint, next
-----------------------------------------------------------------------------
(* The call.                                                               *)
LEMMA RequestFacts ==
  ASSUME request \in Requests
  PROVE  /\ request.azCount \in Nat \ {0}
         /\ request.vpc.base \in Nat /\ request.vpc.mask \in Masks
         /\ request.vpc.base % BlockSize[request.vpc.mask] = 0
         /\ request.specs \in Seq(LegacySpec) \cup {Undefined}
         /\ AzMask \in Nat /\ request.vpc.mask <= AzMask
<1>1. /\ request \in Request
      /\ request.vpc.base % BlockSize[request.vpc.mask] = 0
  BY LegacyRequestAssumption
<1>2. /\ request.azCount \in Nat \ {0} /\ request.vpc \in Block
      /\ request.specs \in Seq(LegacySpec) \cup {Undefined}
  BY <1>1 DEF Request
<1>3. request.vpc.base \in Nat /\ request.vpc.mask \in Masks
  <2>1. Space \in Nat
    BY WidthAssumption, BlockSizeAssumption DEF Space
  <2> QED BY <1>2, <2>1 DEF Block, Addresses
<1>4. NewBitsPerAz(request.azCount) \in 0..request.azCount
  BY LogAssumption DEF NewBitsPerAz
<1>5. AzMask \in Nat /\ request.vpc.mask <= AzMask
  BY <1>2, <1>3, <1>4, WidthAssumption DEF AzMask, Masks
<1> QED BY <1>1, <1>2, <1>3, <1>5

(* The slices, one after the other and aligned.                            *)
LEMMA SliceFacts ==
  ASSUME request \in Requests, AzMask <= Width
  PROVE  /\ AzMask \in Masks /\ BlockSize[AzMask] \in Nat \ {0}
         /\ AzBase(1) = request.vpc.base
         /\ \A i \in Nat \ {0} :
              /\ AzBase(i) \in Nat /\ AzBase(1) <= AzBase(i)
              /\ AzBase(i) % BlockSize[AzMask] = 0
              /\ AzBase(i + 1) = AzBase(i) + BlockSize[AzMask]
<1> DEFINE s == BlockSize[AzMask]
           base == request.vpc.base
<1>1. /\ AzMask \in Masks /\ request.vpc.mask \in 0..Width /\ AzMask \in 0..Width
      /\ s \in Nat \ {0} /\ base \in Nat
  BY RequestFacts, SizeFacts, WidthAssumption DEF Masks
<1>2. base % s = 0
  <2>1. BlockSize[request.vpc.mask] % s = 0
    BY <1>1, RequestFacts, BlockSizeAssumption
  <2> QED
    BY <1>1, <2>1, RequestFacts, SizeFacts, MultipleOfMultiple
<1>3. \A i : AzBase(i) = base + (s * (i - 1))
  BY DEF AzBase
<1> HIDE DEF s, base
<1>4. AzBase(1) = base
  BY <1>1, <1>3
<1>5. ASSUME NEW i \in Nat \ {0}
      PROVE  /\ AzBase(i) \in Nat /\ AzBase(1) <= AzBase(i)
             /\ AzBase(i) % s = 0
             /\ AzBase(i + 1) = AzBase(i) + s
  <2>1. PICK j \in Nat : j = i - 1
    BY <1>5
  <2>2. PICK k \in Nat : k = s * j /\ k % s = 0
    BY <1>1, <2>1, ProductIsMultiple
  <2>3. AzBase(i) = base + k
    BY <1>3, <2>1, <2>2
  <2>4. AzBase(i) % s = 0
    <3>1. base \in Nat /\ k \in Nat /\ s \in Nat \ {0} /\ k % s = 0
      BY <1>1, <2>2
    <3>2. (base + k) % s = base % s
      BY <3>1, RemainderOfSum, Zenon
    <3> QED BY <1>2, <2>3, <3>2
  <2>5. AzBase(i + 1) = base + (s * (j + 1)) /\ s * (j + 1) = s * j + s
    BY <1>1, <1>3, <2>1
  <2> QED
    BY <1>1, <1>4, <2>2, <2>3, <2>4, <2>5
<1> QED
  BY <1>1, <1>4, <1>5 DEF s, base

(* The mask of a spec is one that the library takes, unless it is refused. *)
LEMMA MaskFacts ==
  ASSUME request \in Requests, request.specs # Undefined,
         NEW s \in LegacySpec, s.type \in PlacedTypes
  PROVE  /\ MaskOf(s) \in Nat
         /\ MaskOf(s) <= Width => MaskOf(s) \in Masks
<1>1. CASE s.mask # Undefined
  BY <1>1, WidthAssumption DEF LegacySpec, MaskOf, Masks
<1>2. CASE s.mask = Undefined
  <2>1. AzMask \in Nat /\ DefaultMasks[s.type] \in Masks
    BY RequestFacts, DefaultMasksAssumption
  <2> DEFINE m == AzMask + (IF Len(request.specs) = 1 THEN 0 ELSE 1)
  <2>2. m \in Nat
    BY <2>1
  <2>3. MaskOf(s) = LargerMask(m, DefaultMasks[s.type])
    BY <1>2 DEF MaskOf
  <2> HIDE DEF m
  <2> QED
    BY <2>1, <2>2, <2>3, WidthAssumption DEF LargerMask, Masks
<1> QED BY <1>1, <1>2

-----------------------------------------------------------------------------
(* The specs of a zone.                                                    *)
FilteredByType ==
  /\ subnetsIn \in [PlacedTypes -> Seq(LegacySpec)]
  /\ \A type \in PlacedTypes : \A k \in DOMAIN subnetsIn[type] :
       subnetsIn[type][k].type = type

(* First come the private ones, then the public ones, then the others.     *)
Privates == Len(subnetsIn["private"])
Publics == Len(subnetsIn["public"])

LEMMA ConcatFacts ==
  ASSUME NEW S, NEW s \in Seq(S), NEW t \in Seq(S)
  PROVE  /\ s \o t \in Seq(S)
         /\ Len(s \o t) = Len(s) + Len(t)
         /\ \A q \in 1..Len(s) : (s \o t)[q] = s[q]
         /\ \A q \in (Len(s) + 1)..(Len(s) + Len(t)) : (s \o t)[q] = t[q - Len(s)]
OBVIOUS

LEMMA OrderedFacts ==
  ASSUME FilteredByType
  PROVE  /\ Ordered \in Seq(LegacySpec) /\ Len(Ordered) \in Nat
         /\ Privates \in Nat /\ Publics \in Nat
         /\ Privates + Publics <= Len(Ordered)
         /\ \A q \in 1..Len(Ordered) :
              /\ Ordered[q] \in LegacySpec /\ Ordered[q].type \in PlacedTypes
              /\ Ordered[q].type = "private" <=> q <= Privates
              /\ Ordered[q].type = "public" <=>
                   (Privates < q /\ q <= Privates + Publics)
<1> DEFINE p == subnetsIn["private"]
           u == subnetsIn["public"]
           i == subnetsIn["isolated"]
<1>1. p \in Seq(LegacySpec) /\ u \in Seq(LegacySpec) /\ i \in Seq(LegacySpec)
  BY DEF FilteredByType, PlacedTypes
<1>2. /\ \A k \in DOMAIN p : p[k].type = "private"
      /\ \A k \in DOMAIN u : u[k].type = "public"
      /\ \A k \in DOMAIN i : i[k].type = "isolated"
  BY DEF FilteredByType, PlacedTypes
<1>3. Ordered = (p \o u) \o i /\ Privates = Len(p) /\ Publics = Len(u)
  BY DEF Ordered, Privates, Publics
<1> HIDE DEF p, u, i
<1> DEFINE pu == p \o u
<1>4. /\ Len(p) \in Nat /\ Len(u) \in Nat /\ Len(i) \in Nat
      /\ DOMAIN p = 1..Len(p) /\ DOMAIN u = 1..Len(u) /\ DOMAIN i = 1..Len(i)
  BY <1>1
<1>5. /\ pu \in Seq(LegacySpec)
      /\ Len(pu) = Len(p) + Len(u)
      /\ \A q \in 1..Len(p) : pu[q] = p[q]
      /\ \A q \in (Len(p) + 1)..(Len(p) + Len(u)) : pu[q] = u[q - Len(p)]
  BY <1>1, ConcatFacts
<1> HIDE DEF pu
<1>6. /\ Ordered \in Seq(LegacySpec)
      /\ Len(Ordered) = Len(pu) + Len(i)
      /\ \A q \in 1..Len(pu) : Ordered[q] = pu[q]
      /\ \A q \in (Len(pu) + 1)..(Len(pu) + Len(i)) : Ordered[q] = i[q - Len(pu)]
  BY <1>1, <1>3, <1>5, ConcatFacts DEF pu
<1>7. ASSUME NEW q \in 1..Len(Ordered)
      PROVE  /\ Ordered[q] \in LegacySpec /\ Ordered[q].type \in PlacedTypes
             /\ Ordered[q].type = "private" <=> q <= Privates
             /\ Ordered[q].type = "public" <=>
                  (Privates < q /\ q <= Privates + Publics)
  <2>1. Ordered[q] \in LegacySpec
    BY <1>6
  <2>5. q \in Int
    BY <1>4, <1>5, <1>6
  <2>2. CASE q <= Len(p)
    <3>1. Ordered[q] = p[q] /\ q \in DOMAIN p
      BY <1>4, <1>5, <1>6, <2>2
    <3>2. Ordered[q].type = "private"
      BY <1>2, <3>1
    <3> QED BY <1>3, <1>4, <2>1, <2>5, <2>2, <3>2 DEF PlacedTypes
  <2>3. CASE Len(p) < q /\ q <= Len(p) + Len(u)
    <3>1. Ordered[q] = u[q - Len(p)] /\ q - Len(p) \in DOMAIN u
      BY <1>4, <1>5, <1>6, <2>3
    <3>2. Ordered[q].type = "public"
      BY <1>2, <3>1
    <3> QED BY <1>3, <1>4, <2>1, <2>5, <2>3, <3>2 DEF PlacedTypes
  <2>4. CASE Len(p) + Len(u) < q
    <3>1. Ordered[q] = i[q - Len(pu)] /\ q - Len(pu) \in DOMAIN i
      BY <1>4, <1>5, <1>6, <2>4
    <3>2. Ordered[q].type = "isolated"
      BY <1>2, <3>1
    <3> QED BY <1>3, <1>4, <2>1, <2>5, <2>4, <3>2 DEF PlacedTypes
  <2>6. \/ q <= Len(p)
        \/ Len(p) < q /\ q <= Len(p) + Len(u)
        \/ Len(p) + Len(u) < q
    BY <1>4, <2>5
  <2> QED BY <2>2, <2>3, <2>4, <2>6, Zenon
<1> QED BY <1>3, <1>4, <1>5, <1>6, <1>7

(* The subnets of a type among the first h - 1 of a zone, and those from   *)
(* which the h-th counts.                                                  *)
Before(h, type) == {q \in 1..(h - 1) : Ordered[q].type = type}

PrecedingAt(h) ==
  CASE Ordered[h].type = "private" -> {}
    [] Ordered[h].type = "public" -> Before(h, "private")
    [] OTHER -> IF Before(h, "public") # {} THEN Before(h, "public")
                ELSE Before(h, "private")

CountAt(h) == Cardinality(Before(h, Ordered[h].type))

(* The formula counts every subnet of the zone once: those up to the split *)
(* base by where it is, those of the type by their number.                 *)
LEMMA LastOfRange ==
  ASSUME NEW i \in Nat, NEW j \in Nat, i <= j, i > 0
  PROVE  LastOf(i..j) = j
<1>1. j \in i..j /\ \A r \in i..j : r <= j
  OBVIOUS
<1>2. \A q \in i..j : (\A r \in i..j : r <= q) => q = j
  <2> SUFFICES ASSUME NEW q \in i..j, \A r \in i..j : r <= q PROVE q = j
    OBVIOUS
  <2>1. j <= q
    BY <1>1
  <2> QED BY <2>1
<1> QED BY <1>1, <1>2, Zenon DEF LastOf

LEMMA RangeCount ==
  ASSUME NEW i \in Nat, NEW j \in Nat, i <= j
  PROVE  Cardinality((i + 1)..j) = j - i
<1>1. i + 1 \in Int /\ j \in Int
  OBVIOUS
<1>2. Cardinality((i + 1)..j) = IF i + 1 > j THEN 0 ELSE j - (i + 1) + 1
  BY <1>1, FS_Interval
<1> QED BY <1>2

LEMMA CountFacts ==
  ASSUME FilteredByType, NEW h \in 1..Len(Ordered)
  PROVE  /\ CountAt(h) \in Nat
         /\ PrecedingAt(h) = {} => CountAt(h) = h - 1
         /\ PrecedingAt(h) # {} =>
              /\ LastOf(PrecedingAt(h)) \in 1..(h - 1)
              /\ LastOf(PrecedingAt(h)) + CountAt(h) = h - 1
<1> DEFINE a == Privates
           b == Publics
           type == Ordered[h].type
<1>1. a \in Nat /\ b \in Nat /\ h \in Nat \ {0} /\ h <= Len(Ordered)
  BY OrderedFacts
<1>2. \A q \in 1..h :
        /\ Ordered[q].type \in PlacedTypes
        /\ Ordered[q].type = "private" <=> q <= a
        /\ Ordered[q].type = "public" <=> (a < q /\ q <= a + b)
  BY <1>1, OrderedFacts
<1> HIDE DEF a, b
<1>3. CASE h <= a
  <2>1. type = "private"
    BY <1>1, <1>2, <1>3
  <2>2. Before(h, "private") = 1..(h - 1)
    BY <1>1, <1>2, <1>3 DEF Before
  <2>3. CountAt(h) = h - 1
    BY <1>1, <2>1, <2>2, FS_Interval DEF CountAt
  <2> QED BY <1>1, <2>1, <2>3 DEF PrecedingAt
<1>4. CASE a < h /\ h <= a + b
  <2>1. type = "public"
    BY <1>1, <1>2, <1>4
  <2>2. /\ Before(h, "private") = 1..a
        /\ Before(h, "public") = (a + 1)..(h - 1)
    BY <1>1, <1>2, <1>4 DEF Before
  <2>3. CountAt(h) = h - 1 - a
    <3>1. h - 1 \in Nat /\ a <= h - 1
      BY <1>1, <1>4
    <3> QED BY <1>1, <2>1, <2>2, <3>1, RangeCount DEF CountAt
  <2>4. PrecedingAt(h) = 1..a
    BY <2>1, <2>2 DEF PrecedingAt
  <2> QED BY <1>1, <1>4, <2>3, <2>4, LastOfRange
<1>5. CASE a + b < h
  <2>1. type = "isolated"
    BY <1>1, <1>2, <1>5 DEF PlacedTypes
  <2>2. /\ Before(h, "private") = 1..a
        /\ Before(h, "public") = (a + 1)..(a + b)
    BY <1>1, <1>2, <1>5 DEF Before
  <2>3. Before(h, "isolated") = (a + b + 1)..(h - 1)
    <3>1. \A q \in 1..(h - 1) : Ordered[q].type = "isolated" <=> a + b < q
      BY <1>1, <1>2, <1>5 DEF PlacedTypes
    <3> QED BY <1>1, <1>5, <3>1 DEF Before
  <2>4. CountAt(h) = h - 1 - (a + b)
    <3>1. h - 1 \in Nat /\ a + b \in Nat /\ a + b <= h - 1
      BY <1>1, <1>5
    <3> QED BY <2>1, <2>3, <3>1, RangeCount DEF CountAt
  <2>5. PrecedingAt(h) = IF b > 0 THEN (a + 1)..(a + b) ELSE 1..a
    <3>1. PrecedingAt(h) = IF Before(h, "public") # {} THEN Before(h, "public")
                           ELSE Before(h, "private")
      BY <2>1 DEF PrecedingAt
    <3>2. (a + 1)..(a + b) # {} <=> b > 0
      <4>1. b > 0 => a + 1 \in (a + 1)..(a + b)
        BY <1>1
      <4>2. ~(b > 0) => \A x \in (a + 1)..(a + b) : FALSE
        BY <1>1
      <4> QED BY <4>1, <4>2
    <3> QED BY <2>2, <3>1, <3>2
  <2> QED BY <1>1, <1>5, <2>4, <2>5, LastOfRange
<1> QED BY <1>1, <1>3, <1>4, <1>5

-----------------------------------------------------------------------------
(* The h-th subnet of zone i, when s lists those before it.                *)
CurrentAt(i, s, h) == IF h = 1 THEN BeforeSlice(i) ELSE s[h - 1].cidr

SplitAt(i, s, h) ==
  IF PrecedingAt(h) = {} THEN AzBase(i) ELSE After(s[LastOf(PrecedingAt(h))])

CandidateAt(i, s, h) ==
  CidrSubnetV4(SplitAt(i, s, h), MaskOf(Ordered[h]), CountAt(h))

ChosenAt(i, s, h) ==
  IF IsOverlapping(CurrentAt(i, s, h), CandidateAt(i, s, h))
  THEN NextBlockAfter(CurrentAt(i, s, h), MaskOf(Ordered[h]))
  ELSE CandidateAt(i, s, h)

(* A call that places subnets.                                             *)
Placing ==
  /\ request \in Requests
  /\ request.specs # Undefined
  /\ AzMask <= Width
  /\ AzBase(1) > 0
  /\ FilteredByType

LEMMA SubnetFacts ==
  ASSUME request \in Requests, NEW s \in Seq(SubnetOut), NEW q \in 1..Len(s)
  PROVE  /\ s[q] \in SubnetOut /\ s[q].cidr \in Cidr
         /\ s[q].az \in 1..request.azCount /\ s[q].az \in Nat
         /\ After(s[q]) \in Nat
         /\ After(s[q]) = s[q].cidr.addr + BlockSize[s[q].cidr.mask]
<1>1. s[q] \in SubnetOut
  OBVIOUS
<1>2. s[q].cidr \in Cidr /\ s[q].az \in 1..request.azCount
  BY <1>1 DEF SubnetOut
<1>3. After(s[q]) = s[q].cidr.addr + BlockSize[s[q].cidr.mask]
  BY DEF After
<1>4. After(s[q]) \in Nat
  BY <1>2, <1>3, BlockFacts, SizeFacts
<1> QED BY <1>1, <1>2, <1>3, <1>4, RequestFacts

LEMMA BeforeSliceFacts ==
  ASSUME Placing, NEW i \in Nat \ {0}
  PROVE  /\ BeforeSlice(i) \in Cidr
         /\ BeforeSlice(i).mask = Width /\ BeforeSlice(i).addr = AzBase(i) - 1
         /\ End(BlockOf(BeforeSlice(i))) = AzBase(i)
         /\ AzBase(i) \in Nat
<1>1. AzBase(i) \in Nat /\ AzBase(i) > 0
  <2>1. request \in Requests /\ AzMask <= Width /\ AzBase(1) > 0
    BY DEF Placing
  <2>2. AzBase(1) \in Nat /\ AzBase(i) \in Nat /\ AzBase(1) <= AzBase(i)
    BY <2>1, SliceFacts
  <2> QED BY <2>1, <2>2
<1>2. BeforeSlice(i) = [addr |-> AzBase(i) - 1, mask |-> Width]
  BY DEF BeforeSlice
<1>3. BeforeSlice(i) \in Cidr
  BY <1>1, <1>2, WidthFacts DEF Cidr
<1> QED BY <1>1, <1>2, <1>3, SingleAddress

LEMMA SplitFacts ==
  ASSUME Placing, NEW i \in Nat \ {0}, NEW s \in Seq(SubnetOut),
         NEW h \in 1..Len(Ordered), h <= Len(s) + 1
  PROVE  SplitAt(i, s, h) \in Nat
<1>1. CASE PrecedingAt(h) = {}
  BY <1>1, BeforeSliceFacts DEF SplitAt
<1>2. CASE PrecedingAt(h) # {}
  <2>1. h \in Nat /\ Len(s) \in Nat
    BY OrderedFacts DEF Placing
  <2>2. LastOf(PrecedingAt(h)) \in 1..Len(s)
    BY <1>2, <2>1, CountFacts DEF Placing
  <2> QED BY <1>2, <2>2, SubnetFacts DEF SplitAt, Placing
<1> QED BY <1>1, <1>2

(* What the loop's body chooses: a cidr of the spec's size that does not   *)
(* overlap the subnet before it.                                           *)
LEMMA ChosenFacts ==
  ASSUME Placing, NEW i \in Nat \ {0}, NEW s \in Seq(SubnetOut),
         NEW h \in 1..Len(Ordered), h <= Len(s) + 1,
         MaskOf(Ordered[h]) <= Width
  PROVE  /\ MaskOf(Ordered[h]) \in Masks
         /\ CurrentAt(i, s, h) \in Cidr
         /\ CandidateAt(i, s, h) \in Cidr
         /\ CandidateAt(i, s, h).mask = MaskOf(Ordered[h])
         /\ CandidateAt(i, s, h).addr =
              SplitAt(i, s, h) + BlockSize[MaskOf(Ordered[h])] * CountAt(h)
         /\ ChosenAt(i, s, h) \in Cidr
         /\ ChosenAt(i, s, h).mask = MaskOf(Ordered[h])
         /\ ~IsOverlapping(CurrentAt(i, s, h), ChosenAt(i, s, h))
<1> DEFINE m == MaskOf(Ordered[h])
<1>1. m \in Masks
  BY OrderedFacts, MaskFacts DEF Placing
<1>2. CurrentAt(i, s, h) \in Cidr
  <2>1. CASE h = 1
    BY <2>1, BeforeSliceFacts DEF CurrentAt
  <2>2. CASE h # 1
    <3>1. h - 1 \in 1..Len(s)
      BY <2>2, OrderedFacts DEF Placing
    <3> QED BY <2>2, <3>1, SubnetFacts DEF CurrentAt, Placing
  <2> QED BY <2>1, <2>2
<1>3. CandidateAt(i, s, h) =
        [addr |-> SplitAt(i, s, h) + (BlockSize[m] * CountAt(h)), mask |-> m]
  BY DEF CandidateAt, CidrSubnetV4
<1>4. CandidateAt(i, s, h) \in Cidr
  <2>1. CountAt(h) \in Nat /\ BlockSize[m] \in Nat /\ SplitAt(i, s, h) \in Nat
    BY <1>1, CountFacts, SizeFacts, SplitFacts DEF Placing
  <2>2. SplitAt(i, s, h) + (BlockSize[m] * CountAt(h)) \in Nat
    BY <2>1
  <2> QED BY <1>1, <1>3, <2>2 DEF Cidr
<1>5. /\ NextBlockAfter(CurrentAt(i, s, h), m) \in Cidr
      /\ NextBlockAfter(CurrentAt(i, s, h), m).mask = m
      /\ ~IsOverlapping(CurrentAt(i, s, h), NextBlockAfter(CurrentAt(i, s, h), m))
  BY <1>1, <1>2, NextBlockFacts
<1> QED BY <1>1, <1>2, <1>3, <1>4, <1>5 DEF ChosenAt

(* It depends on the subnets before it only.                               *)
LEMMA ChosenDepends ==
  ASSUME FilteredByType, NEW i, NEW s, NEW t, NEW h \in 1..Len(Ordered),
         \A q \in 1..(h - 1) : s[q] = t[q]
  PROVE  ChosenAt(i, s, h) = ChosenAt(i, t, h)
<1>1. h \in Nat
  BY OrderedFacts
<1>2. CurrentAt(i, s, h) = CurrentAt(i, t, h)
  BY <1>1 DEF CurrentAt
<1>3. SplitAt(i, s, h) = SplitAt(i, t, h)
  BY CountFacts DEF SplitAt
<1> QED BY <1>2, <1>3 DEF ChosenAt, CandidateAt

-----------------------------------------------------------------------------
(* One slice further on.                                                   *)
Shifted(c) == [c EXCEPT !.addr = c.addr + BlockSize[AzMask]]

Fitting == \A j \in DOMAIN Ordered : MaskOf(Ordered[j]) >= AzMask

LEMMA ShiftedFacts ==
  ASSUME request \in Requests, AzMask <= Width, NEW c \in Cidr, c.mask >= AzMask
  PROVE  /\ Shifted(c) \in Cidr
         /\ Shifted(c) = [addr |-> c.addr + BlockSize[AzMask], mask |-> c.mask]
         /\ BlockOf(Shifted(c)).base = BlockOf(c).base + BlockSize[AzMask]
         /\ End(BlockOf(Shifted(c))) = End(BlockOf(c)) + BlockSize[AzMask]
<1> DEFINE d == Shifted(c)
           k == BlockSize[AzMask]
           s == BlockSize[c.mask]
<1>1. /\ k \in Nat \ {0} /\ s \in Nat \ {0} /\ c.addr \in Nat /\ c.mask \in Masks
      /\ c.mask \in 0..Width /\ AzMask \in 0..Width
  BY SliceFacts, SizeFacts, BlockFacts
<1>2. k % s = 0
  BY <1>1, BlockSizeAssumption
<1>3. d = [addr |-> c.addr + k, mask |-> c.mask]
  BY DEF Shifted, Cidr
<1>4. d \in Cidr /\ d.mask = c.mask /\ d.addr = c.addr + k
  BY <1>1, <1>3 DEF Cidr
<1>5. (c.addr + k) % s = c.addr % s
  BY <1>1, <1>2, RemainderOfSum
<1>6. /\ BlockOf(d).base = d.addr - (d.addr % s) /\ End(BlockOf(d)) = BlockOf(d).base + s
      /\ BlockOf(c).base = c.addr - (c.addr % s) /\ End(BlockOf(c)) = BlockOf(c).base + s
      /\ BlockOf(c).base \in Nat
  BY <1>4, BlockFacts
<1>7. c.addr % s \in Int
  BY <1>1, DivisionFacts
<1>8. BlockOf(d).base = BlockOf(c).base + k
  BY <1>1, <1>4, <1>5, <1>6, <1>7
<1> QED BY <1>1, <1>3, <1>4, <1>6, <1>8

LEMMA OverlapIsShifted ==
  ASSUME request \in Requests, AzMask <= Width, NEW c \in Cidr, NEW d \in Cidr,
         c.mask >= AzMask, d.mask >= AzMask
  PROVE  IsOverlapping(Shifted(c), Shifted(d)) <=> IsOverlapping(c, d)
<1>1. BlockSize[AzMask] \in Nat
  BY SliceFacts
<1>2. /\ BlockOf(c).base \in Nat /\ End(BlockOf(c)) \in Nat
      /\ BlockOf(d).base \in Nat /\ End(BlockOf(d)) \in Nat
  BY BlockFacts
<1> QED BY <1>1, <1>2, ShiftedFacts DEF IsOverlapping, Disjoint

LEMMA NextBlockIsShifted ==
  ASSUME request \in Requests, AzMask <= Width, NEW c \in Cidr, NEW m \in Masks,
         c.mask >= AzMask, m >= AzMask
  PROVE  NextBlockAfter(Shifted(c), m) = Shifted(NextBlockAfter(c, m))
<1> DEFINE k == BlockSize[AzMask]
           last(e) == [addr |-> End(BlockOf(e)) - 1, mask |-> m]
<1>1. k \in Nat
  BY SliceFacts
<1>2. \A e : NextBlockAfter(e, m) = [addr |-> End(BlockOf(last(e))), mask |-> m]
  BY DEF NextBlockAfter, BlockOf
<1>3. /\ End(BlockOf(Shifted(c))) = End(BlockOf(c)) + k
      /\ End(BlockOf(c)) \in Nat \ {0}
  BY ShiftedFacts, BlockFacts
<1>4. last(c) \in Cidr
  BY <1>3 DEF Cidr
<1>5. last(Shifted(c)) = Shifted(last(c))
  BY <1>1, <1>3 DEF Shifted
<1>6. /\ End(BlockOf(Shifted(last(c)))) = End(BlockOf(last(c))) + k
      /\ End(BlockOf(last(c))) \in Nat
  BY <1>4, ShiftedFacts, BlockFacts
<1>7. NextBlockAfter(Shifted(c), m)
        = [addr |-> End(BlockOf(last(c))) + k, mask |-> m]
  BY <1>2, <1>5, <1>6
<1>8. NextBlockAfter(c, m) = [addr |-> End(BlockOf(last(c))), mask |-> m]
  BY <1>2
<1> HIDE DEF last
<1> QED BY <1>7, <1>8 DEF Shifted

(* The same specs after the same subnets, in the next slice.               *)
LEMMA ChosenIsShifted ==
  ASSUME Placing, Fitting,
         NEW i \in Nat \ {0}, NEW s \in Seq(SubnetOut), NEW t \in Seq(SubnetOut),
         NEW h \in 1..Len(Ordered), h <= Len(s) + 1, h <= Len(t) + 1,
         MaskOf(Ordered[h]) <= Width,
         \A q \in 1..(h - 1) : /\ t[q].cidr = Shifted(s[q].cidr)
                               /\ s[q].cidr.mask >= AzMask
  PROVE  ChosenAt(i + 1, t, h) = Shifted(ChosenAt(i, s, h))
<1> DEFINE k == BlockSize[AzMask]
           m == MaskOf(Ordered[h])
           cs == CurrentAt(i, s, h)
           ct == CurrentAt(i + 1, t, h)
           ds == CandidateAt(i, s, h)
           dt == CandidateAt(i + 1, t, h)
<1>1. /\ h \in Nat /\ Len(s) \in Nat /\ Len(t) \in Nat /\ i + 1 \in Nat \ {0}
      /\ Len(Ordered) \in Nat /\ h \in DOMAIN Ordered
  BY OrderedFacts DEF Placing
<1>2. /\ k \in Nat \ {0} /\ AzBase(i) \in Nat /\ AzBase(i + 1) = AzBase(i) + k
      /\ AzMask \in Masks
  BY SliceFacts DEF Placing
<1>3. m \in Masks /\ m >= AzMask
  BY <1>1, ChosenFacts DEF Fitting
<1>4. /\ cs \in Cidr /\ ct \in Cidr /\ ds \in Cidr /\ dt \in Cidr
      /\ ds.mask = m /\ ds.addr = SplitAt(i, s, h) + BlockSize[m] * CountAt(h)
      /\ dt.mask = m /\ dt.addr = SplitAt(i + 1, t, h) + BlockSize[m] * CountAt(h)
  BY <1>1, ChosenFacts
<1>5. ct = Shifted(cs) /\ cs.mask >= AzMask
  <2>1. CASE h = 1
    <3>1. /\ cs = BeforeSlice(i) /\ ct = BeforeSlice(i + 1)
          /\ AzMask <= Width
      BY <2>1 DEF CurrentAt, Placing
    <3>2. /\ cs = [addr |-> AzBase(i) - 1, mask |-> Width]
          /\ ct = [addr |-> AzBase(i + 1) - 1, mask |-> Width]
      BY <3>1 DEF BeforeSlice
    <3> QED BY <1>2, <3>1, <3>2, WidthFacts DEF Shifted, Masks
  <2>2. CASE h # 1
    BY <1>1, <2>2 DEF CurrentAt
  <2> QED BY <2>1, <2>2
<1>6. /\ SplitAt(i + 1, t, h) = SplitAt(i, s, h) + k
      /\ SplitAt(i, s, h) \in Nat
  <2>1. SplitAt(i, s, h) \in Nat
    BY SplitFacts
  <2>2. CASE PrecedingAt(h) = {}
    BY <1>2, <2>1, <2>2 DEF SplitAt
  <2>3. CASE PrecedingAt(h) # {}
    <3> DEFINE q == LastOf(PrecedingAt(h))
    <3>1. q \in 1..(h - 1) /\ q \in 1..Len(s) /\ q \in 1..Len(t)
      BY <1>1, <2>3, CountFacts DEF Placing
    <3>2. t[q].cidr = Shifted(s[q].cidr) /\ s[q].cidr.mask >= AzMask
      BY <3>1
    <3>3. /\ s[q].cidr \in Cidr
          /\ After(s[q]) = s[q].cidr.addr + BlockSize[s[q].cidr.mask]
          /\ After(t[q]) = t[q].cidr.addr + BlockSize[t[q].cidr.mask]
      BY <3>1, SubnetFacts DEF Placing
    <3>4. t[q].cidr = [addr |-> s[q].cidr.addr + k, mask |-> s[q].cidr.mask]
      BY <3>2, <3>3, ShiftedFacts DEF Placing
    <3>5. s[q].cidr.addr \in Nat /\ BlockSize[s[q].cidr.mask] \in Nat
      BY <3>3, BlockFacts, SizeFacts
    <3>6. SplitAt(i, s, h) = After(s[q]) /\ SplitAt(i + 1, t, h) = After(t[q])
      BY <2>3 DEF SplitAt
    <3> HIDE DEF q
    <3> QED BY <1>2, <2>1, <3>3, <3>4, <3>5, <3>6, SMTT(30)
  <2> QED BY <2>2, <2>3
<1>7. dt = Shifted(ds)
  <2>1. CountAt(h) \in Nat /\ BlockSize[m] \in Nat
    BY <1>3, CountFacts, SizeFacts DEF Placing
  <2>2. PICK x \in Nat : x = BlockSize[m] * CountAt(h)
    BY <2>1
  <2>3. dt.addr = ds.addr + k
    <3> HIDE DEF dt, ds, k, m
    <3> QED BY <1>2, <1>4, <1>6, <2>2
  <2>4. /\ dt = [addr |-> dt.addr, mask |-> dt.mask]
        /\ ds = [addr |-> ds.addr, mask |-> ds.mask]
    BY <1>4 DEF Cidr
  <2> HIDE DEF dt, ds
  <2> QED BY <1>4, <2>3, <2>4 DEF Shifted
<1>8. IsOverlapping(ct, dt) <=> IsOverlapping(cs, ds)
  BY <1>3, <1>4, <1>5, <1>7, OverlapIsShifted DEF Placing
<1>9. NextBlockAfter(ct, m) = Shifted(NextBlockAfter(cs, m))
  BY <1>3, <1>4, <1>5, NextBlockIsShifted DEF Placing
<1>10. ChosenAt(i, s, h) = IF IsOverlapping(cs, ds) THEN NextBlockAfter(cs, m) ELSE ds
  BY DEF ChosenAt
<1>11. ChosenAt(i + 1, t, h)
         = IF IsOverlapping(ct, dt) THEN NextBlockAfter(ct, m) ELSE dt
  BY DEF ChosenAt
<1> HIDE DEF ct, dt, cs, ds, m
<1> QED BY <1>7, <1>8, <1>9, <1>10, <1>11

-----------------------------------------------------------------------------
(* Specs of one size lie back to back.                                     *)
IsUniform ==
  /\ \A j, k \in DOMAIN Ordered : MaskOf(Ordered[j]) = MaskOf(Ordered[k])
  /\ Fitting

StartOfSize(i, h) == AzBase(i) + (h - 1) * BlockSize[MaskOf(Ordered[1])]

LEMMA UniformFacts ==
  ASSUME Placing, IsUniform, NEW i \in Nat \ {0}, NEW h \in 1..Len(Ordered),
         MaskOf(Ordered[h]) <= Width
  PROVE  /\ MaskOf(Ordered[h]) = MaskOf(Ordered[1])
         /\ MaskOf(Ordered[1]) \in Masks
         /\ BlockSize[MaskOf(Ordered[1])] \in Nat \ {0}
         /\ StartOfSize(i, h) \in Nat
         /\ StartOfSize(i, h) % BlockSize[MaskOf(Ordered[1])] = 0
         /\ StartOfSize(i, 1) = AzBase(i)
         /\ StartOfSize(i, h) + BlockSize[MaskOf(Ordered[1])] = StartOfSize(i, h + 1)
<1> DEFINE m == MaskOf(Ordered[1])
           size == BlockSize[m]
<1>1. /\ Len(Ordered) \in Nat /\ h \in DOMAIN Ordered /\ 1 \in DOMAIN Ordered
      /\ h \in Nat \ {0}
  BY OrderedFacts DEF Placing
<1>2. MaskOf(Ordered[h]) = m /\ m >= AzMask
  BY <1>1 DEF IsUniform, Fitting
<1>3. m \in Masks /\ m \in 0..Width /\ size \in Nat \ {0}
  BY <1>1, <1>2, OrderedFacts, MaskFacts, SizeFacts DEF Placing
<1>4. /\ AzMask \in 0..Width /\ BlockSize[AzMask] \in Nat \ {0}
      /\ AzBase(i) \in Nat /\ AzBase(i) % BlockSize[AzMask] = 0
  BY SliceFacts, SizeFacts DEF Placing
<1>5. AzBase(i) % size = 0
  <2>1. BlockSize[AzMask] % size = 0
    BY <1>2, <1>3, <1>4, BlockSizeAssumption
  <2> QED BY <1>3, <1>4, <2>1, MultipleOfMultiple
<1> HIDE DEF m, size
<1>6. PICK j \in Nat : j = h - 1
  BY <1>1
<1>7. PICK k \in Nat : k = j * size /\ k % size = 0
  <2>1. j * size \in Nat /\ size * j = j * size
    BY <1>3, <1>6
  <2>2. (size * j) % size = 0
    BY <1>3, <1>6, ProductIsMultiple
  <2> QED BY <2>1, <2>2
<1>8. StartOfSize(i, h) = AzBase(i) + k
  BY <1>6, <1>7 DEF StartOfSize, size, m
<1>9. (AzBase(i) + k) % size = AzBase(i) % size
  BY <1>3, <1>4, <1>7, RemainderOfSum
<1>10. StartOfSize(i, h + 1) = AzBase(i) + (j + 1) * size
  BY <1>1, <1>6 DEF StartOfSize, size, m
<1>11. (j + 1) * size = k + size
  BY <1>3, <1>6, <1>7
<1>12. StartOfSize(i, 1) = AzBase(i)
  <2>1. StartOfSize(i, 1) = AzBase(i) + 0 * size
    BY DEF StartOfSize, size, m
  <2> QED BY <1>3, <1>4, <2>1
<1>13. StartOfSize(i, h) \in Nat /\ StartOfSize(i, h) % size = 0
  BY <1>4, <1>5, <1>7, <1>8, <1>9
<1>14. StartOfSize(i, h) + size = StartOfSize(i, h + 1)
  <2>1. StartOfSize(i, h + 1) = AzBase(i) + (k + size)
    BY <1>10, <1>11
  <2>2. AzBase(i) \in Nat /\ size \in Nat
    BY <1>3, <1>4
  <2> QED BY <1>8, <2>1, <2>2
<1> QED
  BY <1>2, <1>3, <1>12, <1>13, <1>14 DEF size, m

LEMMA ChosenIsContiguous ==
  ASSUME Placing, IsUniform, NEW i \in Nat \ {0}, NEW s \in Seq(SubnetOut),
         NEW h \in 1..Len(Ordered), h <= Len(s) + 1, MaskOf(Ordered[h]) <= Width,
         \A q \in 1..(h - 1) : /\ s[q].cidr.addr = StartOfSize(i, q)
                               /\ s[q].cidr.mask = MaskOf(Ordered[q])
  PROVE  ChosenAt(i, s, h).addr = StartOfSize(i, h)
<1> DEFINE m == MaskOf(Ordered[1])
           size == BlockSize[m]
           c == CurrentAt(i, s, h)
           d == CandidateAt(i, s, h)
<1>1. /\ Len(Ordered) \in Nat /\ h \in Nat \ {0} /\ Len(s) \in Nat
  BY OrderedFacts DEF Placing
<1>2. /\ MaskOf(Ordered[h]) = m /\ size \in Nat \ {0} /\ m \in Masks
      /\ StartOfSize(i, h) \in Nat /\ StartOfSize(i, h) % size = 0
      /\ StartOfSize(i, 1) = AzBase(i) /\ AzBase(i) \in Nat
  BY UniformFacts, BeforeSliceFacts
<1>3. \A q \in 1..(h - 1) :
        /\ MaskOf(Ordered[q]) = m
        /\ s[q].cidr.addr = StartOfSize(i, q) /\ s[q].cidr.mask = m
        /\ StartOfSize(i, q) % size = 0 /\ StartOfSize(i, q) \in Nat
        /\ StartOfSize(i, q) + size = StartOfSize(i, q + 1)
        /\ s[q].cidr \in Cidr
  <2> SUFFICES ASSUME NEW q \in 1..(h - 1)
               PROVE  /\ MaskOf(Ordered[q]) = m
                      /\ s[q].cidr.addr = StartOfSize(i, q) /\ s[q].cidr.mask = m
                      /\ StartOfSize(i, q) % size = 0 /\ StartOfSize(i, q) \in Nat
                      /\ StartOfSize(i, q) + size = StartOfSize(i, q + 1)
                      /\ s[q].cidr \in Cidr
    OBVIOUS
  <2>1. q \in 1..Len(Ordered) /\ q \in 1..Len(s)
    BY <1>1
  <2>2. MaskOf(Ordered[q]) = MaskOf(Ordered[h])
    BY <1>1, <2>1, OrderedFacts DEF IsUniform, Placing
  <2> QED BY <1>2, <2>1, <2>2, UniformFacts, SubnetFacts DEF Placing
<1>4. /\ c \in Cidr /\ d \in Cidr /\ d.mask = m
      /\ d.addr = SplitAt(i, s, h) + size * CountAt(h)
  BY <1>2, ChosenFacts
<1>5. d.addr = StartOfSize(i, h)
  <2> DEFINE n == CountAt(h)
             q == IF PrecedingAt(h) = {} THEN 0 ELSE LastOf(PrecedingAt(h))
  <2>1. n \in Nat /\ q \in 0..(h - 1) /\ q + n = h - 1
    BY <1>1, CountFacts DEF Placing
  <2>2. SplitAt(i, s, h) = StartOfSize(i, q + 1)
    <3>1. CASE PrecedingAt(h) = {}
      BY <1>2, <3>1 DEF SplitAt
    <3>2. CASE PrecedingAt(h) # {}
      <4>1. q \in 1..(h - 1) /\ SplitAt(i, s, h) = After(s[q])
        BY <3>2, CountFacts DEF SplitAt, Placing
      <4>2. After(s[q]) = s[q].cidr.addr + BlockSize[s[q].cidr.mask]
        BY DEF After
      <4> HIDE DEF q
      <4> QED BY <1>3, <4>1, <4>2
    <3> QED BY <3>1, <3>2
  <2> HIDE DEF n, q
  <2>3. /\ StartOfSize(i, q + 1) = AzBase(i) + q * size
        /\ StartOfSize(i, h) = AzBase(i) + (q + n) * size
    BY <2>1, <1>1 DEF StartOfSize
  <2> HIDE DEF size, m
  <2>4. (q + n) * size = q * size + size * n /\ q * size \in Nat /\ size * n \in Nat
    BY <1>2, <2>1
  <2> HIDE DEF d
  <2> QED BY <1>2, <1>4, <2>2, <2>3, <2>4 DEF n
<1>6. BlockOf(d).base = StartOfSize(i, h)
  BY <1>2, <1>4, <1>5, AlignedBlock
<1>7. End(BlockOf(c)) = StartOfSize(i, h)
  <2>1. CASE h = 1
    BY <1>2, <2>1, BeforeSliceFacts DEF CurrentAt
  <2>2. CASE h # 1
    <3>1. h - 1 \in 1..(h - 1) /\ c = s[h - 1].cidr /\ (h - 1) + 1 = h
      BY <1>1, <2>2 DEF CurrentAt
    <3>2. End(BlockOf(c)) = c.addr + BlockSize[c.mask]
      BY <1>3, <3>1, AlignedBlock
    <3> QED BY <1>3, <3>1, <3>2
  <2> QED BY <2>1, <2>2
<1>8. ~IsOverlapping(c, d)
  <2>1. End(BlockOf(c)) <= BlockOf(d).base
    BY <1>2, <1>6, <1>7
  <2> QED BY <2>1 DEF IsOverlapping, Disjoint
<1> QED BY <1>5, <1>8 DEF ChosenAt

-----------------------------------------------------------------------------
(* The invariant.  What a zone holds, finished or not.                     *)
ZoneOK(i, s) ==
  /\ Len(s) <= Len(Ordered)
  /\ \A h \in DOMAIN s :
       /\ MaskOf(Ordered[h]) <= Width
       /\ s[h].az = i
       /\ s[h].type = Ordered[h].type /\ s[h].name = Ordered[h].name
       /\ s[h].cidr = ChosenAt(i, s, h)

Contiguous(i, s) ==
  IsUniform => \A h \in DOMAIN s : s[h].cidr.addr = StartOfSize(i, h)

(* The zones that are done, and the subnets of the last one.               *)
Done == IF phase = "returned" THEN zone ELSE zone - 1

LastStart == Len(out) - Len(Ordered)

LastZone == [h \in 1..Len(Ordered) |-> out[LastStart + h]]

HereInv ==
  phase = "placing" =>
    /\ Placing
    /\ ZoneOK(zone, here)
    /\ Contiguous(zone, here)
    /\ current = CurrentAt(zone, here, Len(here) + 1)
    /\ Fitting /\ Done > 0 =>
         \A h \in DOMAIN here : here[h] = InNextZone(LastZone[h])

(* The list as a whole: zone by zone, and alike.                           *)
OrderOfZones ==
  /\ \A p \in DOMAIN out :
       /\ out[p].az <= Done
       /\ out[p].az = 1 <=> p <= Len(Ordered)
       /\ out[p].az = Done <=> p > LastStart
  /\ \A p, q \in DOMAIN out : p < q => out[p].az <= out[q].az

NeighboursApart ==
  \A p \in 2..Len(out) :
    out[p - 1].az = out[p].az => ~IsOverlapping(out[p - 1].cidr, out[p].cidr)

BackToBack ==
  IsUniform =>
    \A p \in DOMAIN out :
      BlockOf(out[p].cidr).base =
        IF p > 1 /\ out[p - 1].az = out[p].az
        THEN End(BlockOf(out[p - 1].cidr)) ELSE AzBase(out[p].az)

NextIsAlike ==
  Fitting => \A p \in DOMAIN out : p <= LastStart =>
               out[p + Len(Ordered)] = InNextZone(out[p])

OutInv ==
  /\ Done = 0 => out = <<>>
  /\ Done > 0 =>
       /\ Len(Ordered) <= Len(out)
       /\ ZoneOK(Done, LastZone)
       /\ OrderOfZones /\ NeighboursApart /\ BackToBack /\ NextIsAlike

StepInv ==
  /\ phase \in {"called", "filtering"} => zone = 1 /\ here = <<>>
  /\ phase \in {"filtering", "placing"} => AzMask <= Width
  /\ phase = "returned" => zone = request.azCount

(* The default layout is made in one step.                                 *)
DefaultInv ==
  /\ phase \in {"called", "returned", "failed"}
  /\ IF phase = "returned" THEN out = DefaultSubnets /\ AzMask + 2 <= Width
     ELSE out = <<>>

IInv ==
  /\ TypeOK
  /\ FilteredByType
  /\ IF request.specs = Undefined THEN DefaultInv
     ELSE StepInv /\ HereInv /\ OutInv

-----------------------------------------------------------------------------
(* What a step does not change.                                            *)
LEMMA CallFrame ==
  ASSUME request' = request
  PROVE  /\ AzMask' = AzMask
         /\ \A i : AzBase(i)' = AzBase(i)
         /\ \A i : BeforeSlice(i)' = BeforeSlice(i)
         /\ \A s : MaskOf(s)' = MaskOf(s)
         /\ \A o : InNextZone(o)' = InNextZone(o)
         /\ SubnetOut' = SubnetOut
         /\ DefaultSubnets' = DefaultSubnets
<1>1. AzMask' = AzMask
  BY DEF AzMask
<1>2. \A i : AzBase(i)' = AzBase(i)
  BY <1>1 DEF AzBase
<1>3. /\ \A i : BeforeSlice(i)' = BeforeSlice(i)
      /\ \A s : MaskOf(s)' = MaskOf(s)
      /\ \A o : InNextZone(o)' = InNextZone(o)
  BY <1>1, <1>2 DEF BeforeSlice, MaskOf, InNextZone
<1>4. SubnetOut' = SubnetOut
  BY DEF SubnetOut
<1>5. DefaultSubnets' = DefaultSubnets
  BY <1>1, <1>2 DEF DefaultSubnets
<1> QED BY <1>1, <1>2, <1>3, <1>4, <1>5

LEMMA SpecsFrame ==
  ASSUME request' = request, subnetsIn' = subnetsIn
  PROVE  /\ Ordered' = Ordered
         /\ FilteredByType' = FilteredByType
         /\ Placing' = Placing
         /\ Fitting' = Fitting
         /\ IsUniform' = IsUniform
         /\ \A i, h : StartOfSize(i, h)' = StartOfSize(i, h)
         /\ \A i, s, h : CurrentAt(i, s, h)' = CurrentAt(i, s, h)
         /\ \A i, s, h : ChosenAt(i, s, h)' = ChosenAt(i, s, h)
         /\ \A i, s : ZoneOK(i, s)' = ZoneOK(i, s)
         /\ \A i, s : Contiguous(i, s)' = Contiguous(i, s)
<1>1. Ordered' = Ordered /\ FilteredByType' = FilteredByType
  BY DEF Ordered, FilteredByType
<1>2. Placing' = Placing
  BY <1>1, CallFrame DEF Placing
<1>3. Fitting' = Fitting
  BY <1>1, CallFrame DEF Fitting
<1>4. IsUniform' = IsUniform
  BY <1>1, <1>3, CallFrame DEF IsUniform
<1>5. \A i, h : StartOfSize(i, h)' = StartOfSize(i, h)
  BY <1>1, CallFrame DEF StartOfSize
<1>6. \A i, s, h : CurrentAt(i, s, h)' = CurrentAt(i, s, h)
  BY CallFrame DEF CurrentAt
<1>7. \A h : PrecedingAt(h)' = PrecedingAt(h) /\ CountAt(h)' = CountAt(h)
  BY <1>1 DEF PrecedingAt, CountAt, Before
<1>8. \A i, s, h : SplitAt(i, s, h)' = SplitAt(i, s, h)
  BY <1>7, CallFrame DEF SplitAt
<1>9. \A i, s, h : CandidateAt(i, s, h)' = CandidateAt(i, s, h)
  BY <1>1, <1>7, <1>8, CallFrame DEF CandidateAt
<1>10. \A i, s, h : ChosenAt(i, s, h)' = ChosenAt(i, s, h)
  BY <1>1, <1>6, <1>9, CallFrame DEF ChosenAt
<1>11. \A i, s : ZoneOK(i, s)' = ZoneOK(i, s)
  BY <1>1, <1>10, CallFrame DEF ZoneOK
<1>12. \A i, s : Contiguous(i, s)' = Contiguous(i, s)
  BY <1>4, <1>5 DEF Contiguous
<1> QED
  BY <1>1, <1>2, <1>3, <1>4, <1>5, <1>6, <1>10, <1>11, <1>12

(* The list so far, when no zone is finished.                              *)
LEMMA OutFrame ==
  ASSUME OutInv, request' = request, subnetsIn' = subnetsIn, out' = out, Done' = Done
  PROVE  OutInv' /\ LastZone' = LastZone
<1>1. LastStart' = LastStart /\ LastZone' = LastZone
  BY SpecsFrame DEF LastStart, LastZone
<1>2. OrderOfZones' = OrderOfZones
  BY <1>1, SpecsFrame DEF OrderOfZones
<1>3. NeighboursApart' = NeighboursApart
  BY DEF NeighboursApart
<1>4. BackToBack' = BackToBack
  BY SpecsFrame, CallFrame DEF BackToBack
<1>5. NextIsAlike' = NextIsAlike
  BY <1>1, SpecsFrame, CallFrame DEF NextIsAlike
<1>6. ZoneOK(Done, LastZone)' = ZoneOK(Done, LastZone)
  BY <1>1, SpecsFrame, CallFrame DEF ZoneOK
<1> QED
  BY <1>1, <1>2, <1>3, <1>4, <1>5, <1>6, SpecsFrame DEF OutInv

-----------------------------------------------------------------------------
(* The steps.                                                              *)
LEMMA InitInv == Init => IInv
<1> SUFFICES ASSUME Init PROVE IInv
  OBVIOUS
<1>1. request \in Requests /\ 1 \in 1..request.azCount
  BY RequestFacts DEF Init
<1>2. TypeOK
  BY <1>1 DEF Init, TypeOK, LegacyPhases
<1>3. FilteredByType
  BY DEF Init, FilteredByType
<1>4. DefaultInv
  BY DEF Init, DefaultInv
<1>5. StepInv /\ HereInv
  BY DEF Init, StepInv, HereInv
<1>6. OutInv
  BY DEF Init, OutInv, Done
<1> QED BY <1>2, <1>3, <1>4, <1>5, <1>6 DEF IInv

LEMMA ThrowInv ==
  ASSUME IInv, Throw, phase # "returned"
  PROVE  IInv'
<1>1. TypeOK'
  BY CallFrame DEF IInv, Throw, TypeOK, LegacyPhases
<1>2. FilteredByType' /\ request' = request
  BY SpecsFrame DEF IInv, Throw
<1>3. CASE request.specs = Undefined
  BY <1>1, <1>2, <1>3 DEF IInv, Throw, DefaultInv
<1>4. CASE request.specs # Undefined
  <2>1. StepInv' /\ HereInv'
    BY <1>4 DEF IInv, Throw, StepInv, HereInv
  <2>2. Done' = Done
    BY DEF Throw, Done
  <2>3. OutInv'
    BY <1>4, <2>2, OutFrame DEF IInv, Throw
  <2> QED BY <1>1, <1>2, <1>4, <2>1, <2>3 DEF IInv
<1> QED BY <1>3, <1>4

(* The default layout: where each subnet lies.                             *)
LEMMA DefaultFacts ==
  ASSUME request \in Requests, AzMask + 2 <= Width
  PROVE  /\ AzMask + 1 \in Masks /\ AzMask + 2 \in Masks
         /\ BlockSize[AzMask] = 2 * BlockSize[AzMask + 1]
         /\ BlockSize[AzMask + 1] = 2 * BlockSize[AzMask + 2]
         /\ BlockSize[AzMask + 2] \in Nat \ {0}
         /\ DefaultSubnets \in Seq(SubnetOut)
         /\ Len(DefaultSubnets) = request.azCount + request.azCount
         /\ \A i \in 1..request.azCount :
              /\ DefaultSubnets[i] =
                   [az |-> i, type |-> "private", name |-> Undefined,
                    cidr |-> [addr |-> AzBase(i), mask |-> AzMask + 1]]
              /\ DefaultSubnets[request.azCount + i] =
                   [az |-> i, type |-> "public", name |-> Undefined,
                    cidr |-> [addr |-> AzBase(i) + BlockSize[AzMask + 1],
                              mask |-> AzMask + 2]]
<1> DEFINE n == request.azCount
           m == AzMask
           one == BlockSize[m + 1]
           private(i) == CidrSubnetV4(AzBase(i), m + 1, 0)
           public(i) == CidrSubnetV4(After([cidr |-> private(i)]), m + 2, 0)
           subnet(i, type, cidr) ==
             [az |-> i, type |-> type, name |-> Undefined, cidr |-> cidr]
           s == [i \in 1..n |-> subnet(i, "private", private(i))]
           t == [i \in 1..n |-> subnet(i, "public", public(i))]
<1>1. /\ n \in Nat \ {0} /\ m \in Nat /\ m \in Masks
      /\ m + 1 \in Masks /\ m + 2 \in Masks
  BY RequestFacts, WidthAssumption DEF Masks
<1>2. /\ BlockSize[m] = 2 * one /\ one = 2 * BlockSize[m + 2]
      /\ one \in Nat \ {0} /\ BlockSize[m + 2] \in Nat \ {0}
  <2>1. /\ m \in 0..(Width - 1) /\ m + 1 \in 0..(Width - 1) /\ (m + 1) + 1 = m + 2
    BY <1>1, WidthAssumption
  <2> QED BY <1>1, <2>1, BlockSizeAssumption, SizeFacts
<1>3. \A i \in 1..n :
        /\ AzBase(i) \in Nat
        /\ private(i) = [addr |-> AzBase(i), mask |-> m + 1]
        /\ public(i) = [addr |-> AzBase(i) + one, mask |-> m + 2]
  <2> SUFFICES ASSUME NEW i \in 1..n
               PROVE  /\ AzBase(i) \in Nat
                      /\ private(i) = [addr |-> AzBase(i), mask |-> m + 1]
                      /\ public(i) = [addr |-> AzBase(i) + one, mask |-> m + 2]
    OBVIOUS
  <2>1. i \in Nat \ {0} /\ m <= Width
    BY <1>1, WidthAssumption
  <2>2. AzBase(i) \in Nat
    BY <2>1, SliceFacts
  <2>3. private(i) = [addr |-> AzBase(i), mask |-> m + 1]
    BY <1>2, <2>2 DEF CidrSubnetV4
  <2>4. After([cidr |-> private(i)]) = AzBase(i) + one
    BY <2>3 DEF After
  <2>5. public(i) = [addr |-> AzBase(i) + one, mask |-> m + 2]
    BY <1>2, <2>2, <2>4 DEF CidrSubnetV4
  <2> QED BY <2>2, <2>3, <2>5
<1>4. DefaultSubnets = s \o t
  BY DEF DefaultSubnets
<1>5. \A i \in 1..n :
        /\ s[i] = [az |-> i, type |-> "private", name |-> Undefined,
                   cidr |-> [addr |-> AzBase(i), mask |-> m + 1]]
        /\ t[i] = [az |-> i, type |-> "public", name |-> Undefined,
                   cidr |-> [addr |-> AzBase(i) + one, mask |-> m + 2]]
        /\ s[i] \in SubnetOut /\ t[i] \in SubnetOut
  BY <1>1, <1>2, <1>3 DEF SubnetOut, PlacedTypes, Cidr
<1>6. s \in Seq(SubnetOut) /\ t \in Seq(SubnetOut) /\ Len(s) = n /\ Len(t) = n
  <2> DEFINE f(i) == subnet(i, "private", private(i))
             g(i) == subnet(i, "public", public(i))
  <2>1. \A i \in 1..n : f(i) \in SubnetOut /\ g(i) \in SubnetOut
    BY <1>5
  <2>2. s = [i \in 1..n |-> f(i)] /\ t = [i \in 1..n |-> g(i)]
    OBVIOUS
  <2> HIDE DEF f, g, s, t
  <2> QED BY <1>1, <2>1, <2>2
<1> HIDE DEF s, t
<1>7. /\ s \o t \in Seq(SubnetOut) /\ Len(s \o t) = n + n
      /\ \A q \in 1..n : (s \o t)[q] = s[q]
      /\ \A q \in (n + 1)..(n + n) : (s \o t)[q] = t[q - n]
  <2>1. /\ s \o t \in Seq(SubnetOut) /\ Len(s \o t) = Len(s) + Len(t)
        /\ \A q \in 1..Len(s) : (s \o t)[q] = s[q]
        /\ \A q \in (Len(s) + 1)..(Len(s) + Len(t)) : (s \o t)[q] = t[q - Len(s)]
    BY <1>6, ConcatFacts, Zenon
  <2> QED BY <1>6, <2>1
<1> HIDE DEF n, m, one
<1>8. \A i \in 1..n : (s \o t)[i] = s[i] /\ (s \o t)[n + i] = t[i]
  <2> SUFFICES ASSUME NEW i \in 1..n
               PROVE  (s \o t)[i] = s[i] /\ (s \o t)[n + i] = t[i]
    OBVIOUS
  <2>1. n + i \in (n + 1)..(n + n) /\ (n + i) - n = i
    BY <1>1
  <2> QED BY <1>7, <2>1
<1>9. \A i \in 1..n :
        /\ DefaultSubnets[i] = [az |-> i, type |-> "private", name |-> Undefined,
                                cidr |-> [addr |-> AzBase(i), mask |-> m + 1]]
        /\ DefaultSubnets[n + i] =
             [az |-> i, type |-> "public", name |-> Undefined,
              cidr |-> [addr |-> AzBase(i) + one, mask |-> m + 2]]
  BY <1>4, <1>5, <1>8
<1> QED
  BY <1>1, <1>2, <1>4, <1>7, <1>9 DEF n, m, one

LEMMA ReturnDefaultsInv ==
  ASSUME IInv, ReturnDefaults
  PROVE  IInv'
<1>1. request \in Requests /\ request' = request
  BY DEF IInv, TypeOK, ReturnDefaults
<1>2. DefaultSubnets \in Seq(SubnetOut)
  BY <1>1, DefaultFacts DEF ReturnDefaults
<1>3. TypeOK'
  BY <1>2, CallFrame DEF IInv, TypeOK, ReturnDefaults, LegacyPhases
<1>4. FilteredByType'
  BY SpecsFrame DEF IInv, ReturnDefaults
<1>5. DefaultInv'
  BY CallFrame DEF ReturnDefaults, DefaultInv
<1> QED BY <1>3, <1>4, <1>5 DEF IInv, ReturnDefaults

LEMMA SplitInv ==
  ASSUME IInv, Split
  PROVE  IInv'
<1>1. request' = request /\ subnetsIn' = subnetsIn /\ request.specs # Undefined
  BY DEF Split
<1>2. TypeOK'
  BY CallFrame DEF IInv, TypeOK, Split, LegacyPhases
<1>3. FilteredByType'
  BY SpecsFrame DEF IInv, Split
<1>4. StepInv' /\ HereInv'
  BY <1>1, CallFrame DEF IInv, Split, StepInv, HereInv
<1>5. Done' = Done
  BY DEF Split, Done
<1>6. OutInv'
  BY <1>1, <1>5, OutFrame DEF IInv, Split
<1> QED BY <1>1, <1>2, <1>3, <1>4, <1>6 DEF IInv

LEMMA FilterSpecInv ==
  ASSUME IInv, FilterSpec
  PROVE  IInv'
<1> DEFINE s == request.specs[filtered + 1]
<1>1. /\ TypeOK /\ FilteredByType /\ phase = "filtering"
      /\ request' = request /\ out' = out /\ zone' = zone /\ phase' = phase
      /\ here' = here
  BY DEF IInv, FilterSpec
<1>2. request.specs # Undefined
  BY <1>1 DEF IInv, DefaultInv
<1>3. s \in LegacySpec
  <2>1. request.specs \in Seq(LegacySpec)
    BY <1>1, <1>2, RequestFacts DEF TypeOK
  <2>2. filtered + 1 \in 1..Len(request.specs)
    BY <1>1, <2>1 DEF TypeOK, FilterSpec
  <2> QED BY <2>1, <2>2
<1>4. subnetsIn' = [type \in PlacedTypes |->
                      IF s.type = type THEN Append(subnetsIn[type], s)
                      ELSE subnetsIn[type]]
  BY DEF FilterSpec
<1> HIDE DEF s
<1>5. ASSUME NEW type \in PlacedTypes
      PROVE  /\ subnetsIn'[type] \in Seq(LegacySpec)
             /\ \A k \in DOMAIN subnetsIn'[type] : subnetsIn'[type][k].type = type
  <2>1. /\ subnetsIn[type] \in Seq(LegacySpec)
        /\ \A k \in DOMAIN subnetsIn[type] : subnetsIn[type][k].type = type
    BY <1>1 DEF FilteredByType
  <2>2. CASE s.type = type
    <3>1. subnetsIn'[type] = Append(subnetsIn[type], s)
      BY <1>4, <2>2
    <3>2. PICK r \in Seq(LegacySpec) : r = subnetsIn[type]
      BY <2>1
    <3>3. /\ Append(r, s) \in Seq(LegacySpec)
          /\ \A k \in DOMAIN Append(r, s) : k \in DOMAIN r \/ k = Len(r) + 1
          /\ \A k \in DOMAIN r : Append(r, s)[k] = r[k]
          /\ Append(r, s)[Len(r) + 1] = s
      BY <1>3
    <3> QED BY <2>1, <2>2, <3>1, <3>2, <3>3
  <2>3. CASE s.type # type
    BY <1>4, <2>1, <2>3
  <2> QED BY <2>2, <2>3
<1>6. subnetsIn' \in [PlacedTypes -> Seq(LegacySpec)]
  BY <1>4, <1>5
<1>7. FilteredByType'
  BY <1>5, <1>6 DEF FilteredByType
<1>8. TypeOK'
  BY <1>1, <1>6, CallFrame DEF TypeOK, FilterSpec
<1>9. StepInv' /\ HereInv'
  BY <1>1, <1>2, CallFrame DEF IInv, StepInv, HereInv
<1>10. OutInv'
  <2>1. zone = 1 /\ OutInv
    BY <1>1, <1>2 DEF IInv, StepInv
  <2>2. Done = 0 /\ Done' = 0
    BY <1>1, <2>1 DEF Done
  <2> QED BY <1>1, <2>1, <2>2 DEF OutInv
<1> QED BY <1>1, <1>2, <1>7, <1>8, <1>9, <1>10 DEF IInv

LEMMA StartFirstZoneInv ==
  ASSUME IInv, StartFirstZone
  PROVE  IInv'
<1>1. /\ phase = "filtering" /\ request \in Requests
      /\ request' = request /\ subnetsIn' = subnetsIn /\ zone' = zone
      /\ here' = here /\ out' = out /\ phase' = "placing"
      /\ AzBase(1) > 0 /\ current' = BeforeSlice(1)
  BY DEF IInv, TypeOK, StartFirstZone
<1>2. request.specs # Undefined
  BY <1>1 DEF IInv, DefaultInv
<1>3. zone = 1 /\ here = <<>> /\ AzMask <= Width
  BY <1>1, <1>2 DEF IInv, StepInv
<1>4. Placing
  BY <1>1, <1>2, <1>3 DEF IInv, Placing
<1>5. TypeOK'
  <2>1. BeforeSlice(1) \in Cidr
    BY <1>4, BeforeSliceFacts
  <2> QED BY <1>1, <2>1, CallFrame DEF IInv, TypeOK, StartFirstZone, LegacyPhases
<1>6. FilteredByType'
  BY <1>1, SpecsFrame DEF IInv
<1>7. StepInv'
  BY <1>1, <1>3, CallFrame DEF StepInv
<1>8. Done' = Done /\ Done = 0
  BY <1>1, <1>3 DEF Done
<1>9. HereInv'
  <2>1. ZoneOK(1, <<>>) /\ Contiguous(1, <<>>)
    <3>1. Len(<<>>) = 0 /\ Len(Ordered) \in Nat /\ DOMAIN <<>> = {}
      BY <1>4, OrderedFacts DEF Placing
    <3> QED BY <3>1 DEF ZoneOK, Contiguous
  <2>2. CurrentAt(1, <<>>, Len(<<>>) + 1) = BeforeSlice(1)
    BY DEF CurrentAt
  <2> QED BY <1>1, <1>3, <1>4, <1>8, <2>1, <2>2, SpecsFrame DEF HereInv
<1>10. OutInv'
  BY <1>1, <1>2, <1>8, OutFrame DEF IInv
<1> QED BY <1>1, <1>2, <1>5, <1>6, <1>7, <1>9, <1>10 DEF IInv

-----------------------------------------------------------------------------
(* What the loop's body computes is the next subnet of the zone.           *)
LEMMA ChosenIsNext ==
  ASSUME TypeOK, Placing, ZoneOK(zone, here),
         current = CurrentAt(zone, here, Len(here) + 1),
         Len(here) < Len(Ordered)
  PROVE  /\ Len(here) + 1 \in 1..Len(Ordered)
         /\ Chosen(NextSpec) = ChosenAt(zone, here, Len(here) + 1)
<1> DEFINE h == Len(here) + 1
           type == Ordered[h].type
<1>1. /\ Len(here) \in Nat /\ DOMAIN here = 1..(h - 1) /\ Len(Ordered) \in Nat
      /\ h \in 1..Len(Ordered)
  BY OrderedFacts DEF TypeOK, Placing
<1>2. NextSpec = Ordered[h]
  BY DEF NextSpec
<1>3. \A t : PlacedOf(t) = Before(h, t)
  BY <1>1 DEF ZoneOK, PlacedOf, Before
<1> HIDE DEF h
<1>4. Preceding(type) = PrecedingAt(h)
  BY <1>3 DEF Preceding, PrecedingAt
<1>5. SplitBase(type) = SplitAt(zone, here, h)
  BY <1>4 DEF SplitBase, SplitAt
<1>6. Candidate(NextSpec) = CandidateAt(zone, here, h)
  BY <1>2, <1>3, <1>5 DEF Candidate, CandidateAt, CountAt
<1>7. current = CurrentAt(zone, here, h)
  BY DEF h
<1>8. Chosen(NextSpec) = ChosenAt(zone, here, h)
  BY <1>2, <1>6, <1>7 DEF Chosen, ChosenAt
<1> QED BY <1>1, <1>8 DEF h

LEMMA LastZoneFacts ==
  ASSUME TypeOK, FilteredByType, Len(Ordered) <= Len(out)
  PROVE  /\ Len(out) \in Nat /\ DOMAIN out = 1..Len(out) /\ Len(Ordered) \in Nat
         /\ LastStart \in Nat
         /\ LastZone \in Seq(SubnetOut) /\ Len(LastZone) = Len(Ordered)
         /\ DOMAIN LastZone = 1..Len(Ordered)
         /\ \A h \in 1..Len(Ordered) :
              LastZone[h] = out[LastStart + h] /\ LastStart + h \in DOMAIN out
<1>1. PICK n \in Nat : n = Len(Ordered)
  BY OrderedFacts
<1>2. PICK l \in Nat : l = Len(out)
  BY DEF TypeOK
<1>3. DOMAIN out = 1..l
  BY <1>2 DEF TypeOK
<1>4. PICK k \in Nat : l = k + n
  <2>1. n <= l
    BY <1>1, <1>2
  <2>2. l - n \in Nat /\ l = (l - n) + n
    BY <2>1
  <2> QED BY <2>2
<1>5. LastStart = k
  BY <1>1, <1>2, <1>4 DEF LastStart
<1>6. \A h \in 1..n : k + h \in DOMAIN out /\ out[k + h] \in SubnetOut
  <2> SUFFICES ASSUME NEW h \in 1..n
               PROVE  k + h \in DOMAIN out /\ out[k + h] \in SubnetOut
    OBVIOUS
  <2>1. k + h \in 1..l
    BY <1>4
  <2> QED BY <1>3, <2>1 DEF TypeOK
<1>7. LastZone = [h \in 1..n |-> out[k + h]]
  BY <1>1, <1>5 DEF LastZone
<1>8. LastZone \in Seq(SubnetOut) /\ Len(LastZone) = n /\ DOMAIN LastZone = 1..n
  <2> DEFINE f(h) == out[k + h]
  <2>1. \A h \in 1..n : f(h) \in SubnetOut
    BY <1>6
  <2>2. LastZone = [h \in 1..n |-> f(h)]
    BY <1>7
  <2> HIDE DEF f
  <2> QED BY <2>1, <2>2
<1> QED BY <1>1, <1>2, <1>3, <1>5, <1>6, <1>7, <1>8

(* The subnets of a zone have the sizes that were asked for, and are apart *)
(* from their neighbours.                                                  *)
LEMMA ZoneFacts ==
  ASSUME Placing, NEW i \in Nat \ {0}, NEW s \in Seq(SubnetOut), ZoneOK(i, s),
         NEW h \in 1..Len(s)
  PROVE  /\ h \in 1..Len(Ordered) /\ MaskOf(Ordered[h]) <= Width
         /\ s[h] \in SubnetOut /\ s[h].cidr \in Cidr
         /\ s[h].az = i /\ s[h].type = Ordered[h].type /\ s[h].name = Ordered[h].name
         /\ s[h].cidr = ChosenAt(i, s, h)
         /\ s[h].cidr.mask = MaskOf(Ordered[h])
         /\ h > 1 => ~IsOverlapping(s[h - 1].cidr, s[h].cidr)
<1>1. /\ h \in 1..Len(Ordered) /\ h <= Len(s) + 1 /\ h \in DOMAIN s
  BY OrderedFacts DEF ZoneOK, Placing
<1>2. /\ MaskOf(Ordered[h]) <= Width
      /\ s[h].az = i /\ s[h].type = Ordered[h].type /\ s[h].name = Ordered[h].name
      /\ s[h].cidr = ChosenAt(i, s, h)
  BY <1>1 DEF ZoneOK
<1>3. /\ ChosenAt(i, s, h).mask = MaskOf(Ordered[h])
      /\ ~IsOverlapping(CurrentAt(i, s, h), ChosenAt(i, s, h))
  BY <1>1, <1>2, ChosenFacts
<1>4. h > 1 => CurrentAt(i, s, h) = s[h - 1].cidr
  BY <1>1 DEF CurrentAt
<1> QED BY <1>1, <1>2, <1>3, <1>4, SubnetFacts DEF Placing

LEMMA PlaceSubnetInv ==
  ASSUME IInv, PlaceSubnet
  PROVE  IInv'
<1> DEFINE h == Len(here) + 1
           e == [az |-> zone, type |-> NextSpec.type, name |-> NextSpec.name,
                 cidr |-> Chosen(NextSpec)]
<1>1. /\ TypeOK /\ phase = "placing" /\ phase' = phase
      /\ request \in Requests /\ request' = request /\ subnetsIn' = subnetsIn
      /\ zone' = zone /\ out' = out /\ here' = Append(here, e)
      /\ current' = Chosen(NextSpec)
      /\ Len(here) < Len(Ordered) /\ MaskOf(NextSpec) <= Width
  BY DEF IInv, TypeOK, PlaceSubnet
<1>2. request.specs # Undefined
  BY <1>1 DEF IInv, DefaultInv
<1>3. /\ StepInv /\ OutInv /\ FilteredByType
      /\ Placing /\ ZoneOK(zone, here) /\ Contiguous(zone, here)
      /\ current = CurrentAt(zone, here, Len(here) + 1)
      /\ Fitting /\ Done > 0 =>
           \A q \in DOMAIN here : here[q] = InNextZone(LastZone[q])
  BY <1>1, <1>2 DEF IInv, HereInv
<1>4. /\ zone \in Nat \ {0} /\ zone \in 1..request.azCount /\ here \in Seq(SubnetOut)
      /\ Len(here) \in Nat /\ DOMAIN here = 1..Len(here)
  BY <1>1, RequestFacts DEF TypeOK
<1>5. /\ h \in 1..Len(Ordered) /\ NextSpec = Ordered[h]
      /\ Chosen(NextSpec) = ChosenAt(zone, here, h)
  BY <1>1, <1>3, ChosenIsNext DEF NextSpec
<1>6. /\ ChosenAt(zone, here, h) \in Cidr
      /\ ChosenAt(zone, here, h).mask = MaskOf(Ordered[h])
  BY <1>1, <1>3, <1>4, <1>5, ChosenFacts
<1>7. /\ e.az = zone /\ e.type = Ordered[h].type /\ e.name = Ordered[h].name
      /\ e.cidr = ChosenAt(zone, here, h)
  BY <1>5
<1>8. e \in SubnetOut
  <2>1. Ordered[h] \in LegacySpec /\ Ordered[h].type \in PlacedTypes
    BY <1>3, <1>5, OrderedFacts
  <2>2. Ordered[h].name \in Names \cup {Undefined}
    BY <2>1 DEF LegacySpec
  <2> QED BY <1>4, <1>5, <1>6, <2>1, <2>2 DEF SubnetOut
<1> HIDE DEF e
<1>9. /\ here' \in Seq(SubnetOut) /\ Len(here') = h /\ DOMAIN here' = 1..h
      /\ \A q \in 1..(h - 1) : here'[q] = here[q]
      /\ here'[h] = e
  BY <1>1, <1>4, <1>8
<1>10. h \in Nat /\ h - 1 = Len(here) /\ Len(Ordered) \in Nat
  BY <1>3, <1>4, OrderedFacts
<1> HIDE DEF h
<1>11. TypeOK'
  BY <1>1, <1>5, <1>6, <1>9, CallFrame DEF TypeOK, PlaceSubnet
<1>12. \A q \in 1..h : ChosenAt(zone, here', q) = ChosenAt(zone, here, q)
  <2> SUFFICES ASSUME NEW q \in 1..h
               PROVE  ChosenAt(zone, here', q) = ChosenAt(zone, here, q)
    OBVIOUS
  <2>1. q \in 1..Len(Ordered) /\ \A r \in 1..(q - 1) : here'[r] = here[r]
    BY <1>5, <1>9, <1>10
  <2> QED BY <1>3, <2>1, ChosenDepends
<1>13. ZoneOK(zone, here')
  <2>1. \A q \in 1..(h - 1) :
          /\ MaskOf(Ordered[q]) <= Width
          /\ here[q].az = zone
          /\ here[q].type = Ordered[q].type /\ here[q].name = Ordered[q].name
          /\ here[q].cidr = ChosenAt(zone, here, q)
    BY <1>3, <1>4, <1>10 DEF ZoneOK
  <2>2. \A q \in 1..h : q \in 1..(h - 1) \/ q = h
    BY <1>10
  <2>3. Len(here') <= Len(Ordered) /\ MaskOf(Ordered[h]) <= Width
    BY <1>1, <1>5, <1>9, <1>10
  <2> QED BY <1>7, <1>9, <1>12, <2>1, <2>2, <2>3 DEF ZoneOK
<1>14. Contiguous(zone, here')
  <2> SUFFICES ASSUME IsUniform, NEW q \in 1..h
               PROVE  here'[q].cidr.addr = StartOfSize(zone, q)
    BY <1>9 DEF Contiguous
  <2>1. \A r \in 1..(h - 1) : /\ here[r].cidr.addr = StartOfSize(zone, r)
                              /\ here[r].cidr.mask = MaskOf(Ordered[r])
    BY <1>3, <1>4, <1>10, ZoneFacts DEF Contiguous
  <2>2. ChosenAt(zone, here, h).addr = StartOfSize(zone, h)
    BY <1>1, <1>3, <1>4, <1>5, <1>10, <2>1, ChosenIsContiguous
  <2>3. q \in 1..(h - 1) \/ q = h
    BY <1>10
  <2> QED BY <1>7, <1>9, <2>1, <2>2, <2>3
<1>15. current' = CurrentAt(zone, here', Len(here') + 1)
  <2>1. h + 1 # 1 /\ (h + 1) - 1 = h
    BY <1>5, <1>10
  <2> QED BY <1>1, <1>5, <1>7, <1>9, <2>1 DEF CurrentAt
<1>16. Done' = Done
  BY <1>1 DEF Done
<1>17. OutInv' /\ LastZone' = LastZone
  BY <1>1, <1>3, <1>16, OutFrame
<1>18. ASSUME Fitting, Done > 0, NEW q \in 1..h
       PROVE  here'[q] = InNextZone(LastZone[q])
  <2> DEFINE last == LastZone
             i == Done
  <2>1. /\ Len(Ordered) <= Len(out) /\ ZoneOK(i, last)
        /\ i \in Nat \ {0} /\ i + 1 = zone
    BY <1>1, <1>3, <1>4, <1>18 DEF OutInv, Done
  <2>2. /\ last \in Seq(SubnetOut) /\ Len(last) = Len(Ordered)
        /\ DOMAIN last = 1..Len(Ordered)
    BY <1>1, <1>3, <2>1, LastZoneFacts
  <2>3. \A r \in 1..(h - 1) : here[r] = InNextZone(last[r])
    BY <1>3, <1>4, <1>10, <1>18
  <2> HIDE DEF last, i
  <2>4. \A r \in 1..(h - 1) : /\ here[r].cidr = Shifted(last[r].cidr)
                              /\ last[r].cidr.mask >= AzMask
    <3> SUFFICES ASSUME NEW r \in 1..(h - 1)
                 PROVE  /\ here[r].cidr = Shifted(last[r].cidr)
                        /\ last[r].cidr.mask >= AzMask
      OBVIOUS
    <3>1. r \in 1..Len(last) /\ r \in DOMAIN Ordered
      BY <1>3, <1>5, <1>10, <2>2, OrderedFacts
    <3>2. /\ last[r] \in SubnetOut /\ last[r].cidr.mask = MaskOf(Ordered[r])
      BY <1>3, <2>1, <2>2, <3>1, ZoneFacts
    <3>3. here[r] = InNextZone(last[r])
      BY <2>3
    <3> QED BY <1>18, <3>1, <3>2, <3>3 DEF Fitting, InNextZone, Shifted, SubnetOut
  <2>5. h <= Len(here) + 1 /\ h <= Len(last) + 1 /\ h \in 1..Len(last)
    BY <1>5, <1>10, <2>2
  <2>6. /\ last[h] \in SubnetOut /\ last[h].az = i /\ last[h].type = Ordered[h].type
        /\ last[h].name = Ordered[h].name /\ last[h].cidr = ChosenAt(i, last, h)
        /\ MaskOf(Ordered[h]) <= Width
    BY <1>3, <2>1, <2>2, <2>5, ZoneFacts
  <2>7. ChosenAt(i + 1, here, h) = Shifted(ChosenAt(i, last, h))
    BY <1>3, <1>4, <1>5, <1>18, <2>1, <2>2, <2>4, <2>5, <2>6, ChosenIsShifted,
       ZenonT(30)
  <2>8. e = InNextZone(last[h])
    <3>1. e \in SubnetOut /\ e.cidr = Shifted(last[h].cidr) /\ e.az = last[h].az + 1
      BY <1>7, <1>8, <2>1, <2>6, <2>7
    <3>2. e.type = last[h].type /\ e.name = last[h].name
      BY <1>7, <2>6
    <3> QED BY <2>6, <3>1, <3>2 DEF InNextZone, Shifted, SubnetOut
  <2>9. q \in 1..(h - 1) \/ q = h
    BY <1>10
  <2> QED BY <1>9, <2>3, <2>8, <2>9 DEF last
<1>19. HereInv'
  <2>1. Placing' /\ Fitting' = Fitting /\ request' = request
    BY <1>1, <1>3, SpecsFrame
  <2>2. ZoneOK(zone, here)'
    BY <1>1, <1>13, SpecsFrame, CallFrame DEF ZoneOK
  <2>3. Contiguous(zone, here)'
    BY <1>1, <1>14, SpecsFrame DEF Contiguous
  <2>4. (current = CurrentAt(zone, here, Len(here) + 1))'
    BY <1>1, <1>15, CallFrame DEF CurrentAt
  <2>5. ASSUME Fitting, Done > 0
        PROVE  (\A q \in DOMAIN here : here[q] = InNextZone(LastZone[q]))'
    BY <1>9, <1>17, <1>18, <2>1, <2>5, CallFrame DEF InNextZone
  <2> QED BY <1>16, <2>1, <2>2, <2>3, <2>4, <2>5 DEF HereInv
<1>20. StepInv'
  BY <1>1, <1>3, CallFrame DEF StepInv
<1>21. FilteredByType'
  BY <1>1, <1>3, SpecsFrame
<1> QED BY <1>1, <1>2, <1>11, <1>17, <1>19, <1>20, <1>21 DEF IInv

-----------------------------------------------------------------------------
(* The list after a zone: the zone's subnets behind those of the others.   *)
LEMMA NextListFacts ==
  ASSUME IInv, NextZone
  PROVE  /\ TypeOK /\ Placing /\ StepInv /\ OutInv /\ phase = "placing"
         /\ ZoneOK(zone, here) /\ Contiguous(zone, here)
         /\ request.specs # Undefined /\ request' = request /\ subnetsIn' = subnetsIn
         /\ zone \in Nat \ {0} /\ Done = zone - 1 /\ Done' = zone
         /\ here \in Seq(SubnetOut) /\ Len(here) = Len(Ordered)
         /\ DOMAIN here = 1..Len(Ordered)
         /\ Len(Ordered) \in Nat /\ Len(out) \in Nat /\ DOMAIN out = 1..Len(out)
         /\ out' \in Seq(SubnetOut) /\ Len(out') = Len(out) + Len(Ordered)
         /\ DOMAIN out' = 1..(Len(out) + Len(Ordered))
         /\ \A p \in 1..Len(out) : out'[p] = out[p]
         /\ \A h \in 1..Len(Ordered) : out'[Len(out) + h] = here[h]
<1>1. /\ TypeOK /\ phase = "placing" /\ request \in Requests
      /\ request' = request /\ subnetsIn' = subnetsIn
      /\ Len(here) = Len(Ordered) /\ out' = out \o here
  BY DEF IInv, TypeOK, NextZone
<1>2. request.specs # Undefined
  BY <1>1 DEF IInv, DefaultInv
<1>3. /\ Placing /\ StepInv /\ OutInv
      /\ ZoneOK(zone, here) /\ Contiguous(zone, here)
  BY <1>1, <1>2 DEF IInv, HereInv
<1>4. zone \in Nat \ {0}
  BY <1>1, RequestFacts DEF TypeOK
<1>5. Done = zone - 1
  BY <1>1 DEF Done
<1>6. Done' = zone
  <2>1. CASE IsLastZone
    BY <2>1 DEF NextZone, Done
  <2>2. CASE ~IsLastZone
    <3>1. phase' = "placing" /\ zone' = zone + 1
      BY <1>1, <2>2 DEF NextZone
    <3>2. (zone + 1) - 1 = zone
      BY <1>4
    <3> QED BY <3>1, <3>2 DEF Done
  <2> QED BY <2>1, <2>2
<1>7. /\ here \in Seq(SubnetOut) /\ out \in Seq(SubnetOut)
      /\ Len(here) \in Nat /\ DOMAIN here = 1..Len(here)
      /\ Len(out) \in Nat /\ DOMAIN out = 1..Len(out)
  BY <1>1 DEF TypeOK
<1>8. /\ out \o here \in Seq(SubnetOut)
      /\ Len(out \o here) = Len(out) + Len(here)
      /\ \A q \in 1..Len(out) : (out \o here)[q] = out[q]
      /\ \A q \in (Len(out) + 1)..(Len(out) + Len(here)) :
           (out \o here)[q] = here[q - Len(out)]
  BY <1>7, ConcatFacts, Zenon
<1>9. \A h \in 1..Len(here) : (out \o here)[Len(out) + h] = here[h]
  <2> SUFFICES ASSUME NEW h \in 1..Len(here)
               PROVE  (out \o here)[Len(out) + h] = here[h]
    OBVIOUS
  <2>1. PICK l \in Nat : l = Len(out)
    BY <1>7
  <2>2. PICK n \in Nat : n = Len(here)
    BY <1>7
  <2>3. l + h \in (l + 1)..(l + n) /\ (l + h) - l = h
    BY <2>2
  <2> QED BY <1>8, <2>1, <2>2, <2>3
<1>10. DOMAIN out' = 1..Len(out')
  BY <1>1, <1>8
<1> QED
  BY <1>1, <1>2, <1>3, <1>4, <1>5, <1>6, <1>7, <1>8, <1>9, <1>10

LEMMA LastZoneIsHere ==
  ASSUME IInv, NextZone
  PROVE  LastStart' = Len(out) /\ LastZone' = here
<1>1. PICK l \in Nat : l = Len(out)
  BY NextListFacts
<1>2. PICK n \in Nat : n = Len(Ordered)
  BY NextListFacts
<1>3. Ordered' = Ordered /\ Len(out') = l + n
  BY <1>1, <1>2, NextListFacts, SpecsFrame
<1>4. LastStart' = l
  BY <1>2, <1>3 DEF LastStart
<1>5. LastZone' = [h \in 1..n |-> out'[l + h]]
  BY <1>2, <1>3, <1>4 DEF LastZone
<1>6. /\ here \in Seq(SubnetOut) /\ DOMAIN here = 1..n
      /\ \A h \in 1..n : out'[l + h] = here[h]
  BY <1>1, <1>2, NextListFacts
<1>7. here = [h \in 1..n |-> here[h]]
  BY <1>6
<1> QED BY <1>1, <1>4, <1>5, <1>6, <1>7

(* The subnets of the other zones are of other zones.                      *)
LEMMA EarlierZones ==
  ASSUME IInv, NextZone
  PROVE  /\ \A p \in 1..Len(out) : /\ out[p].az \in Nat /\ out[p].az <= zone - 1
                                   /\ zone > 1
         /\ \A h \in 1..Len(Ordered) : here[h].az = zone
         /\ zone = 1 => Len(out) = 0
         /\ zone > 1 => Len(Ordered) <= Len(out)
<1>1. zone \in Nat \ {0} /\ Done = zone - 1 /\ OutInv
  BY NextListFacts
<1>2. zone = 1 => Len(out) = 0
  BY <1>1 DEF OutInv
<1>3. zone > 1 => Len(Ordered) <= Len(out)
  BY <1>1 DEF OutInv
<1>4. \A h \in 1..Len(Ordered) : here[h].az = zone
  BY NextListFacts DEF ZoneOK
<1>5. ASSUME NEW p \in 1..Len(out)
      PROVE  out[p].az \in Nat /\ out[p].az <= zone - 1 /\ zone > 1
  <2>1. zone > 1
    BY <1>1, <1>2
  <2>2. OrderOfZones /\ p \in DOMAIN out
    BY <1>1, <2>1, NextListFacts DEF OutInv
  <2>3. out[p] \in SubnetOut
    BY <2>2, NextListFacts DEF TypeOK
  <2>4. out[p].az \in Nat
    BY <2>3, NextListFacts, RequestFacts DEF SubnetOut, Placing
  <2> QED BY <1>1, <2>1, <2>2, <2>4 DEF OrderOfZones
<1> QED BY <1>2, <1>3, <1>4, <1>5

LEMMA NextOrder ==
  ASSUME IInv, NextZone
  PROVE  OrderOfZones'
<1>1. PICK l \in Nat : l = Len(out)
  BY NextListFacts
<1>2. PICK n \in Nat : n = Len(Ordered)
  BY NextListFacts
<1>3. /\ zone \in Nat \ {0} /\ Done' = zone /\ Ordered' = Ordered /\ LastStart' = l
      /\ DOMAIN out' = 1..(l + n)
  BY <1>1, <1>2, NextListFacts, SpecsFrame, LastZoneIsHere
<1>4. /\ \A p \in 1..l : out'[p] = out[p] /\ out[p].az \in Nat /\ out[p].az <= zone - 1
                         /\ zone > 1
      /\ zone = 1 => l = 0
      /\ zone > 1 => n <= l
  BY <1>1, <1>2, NextListFacts, EarlierZones
<1>5. \A p \in (l + 1)..(l + n) : out'[p].az = zone
  <2> SUFFICES ASSUME NEW p \in (l + 1)..(l + n)
               PROVE  out'[p].az = zone
    OBVIOUS
  <2>1. PICK h \in 1..n : p = l + h
    <3>1. p - l \in 1..n /\ p = l + (p - l)
      OBVIOUS
    <3> QED BY <3>1
  <2> QED BY <1>1, <1>2, <2>1, NextListFacts, EarlierZones
<1>6. \A p \in 1..l : out[p].az = 1 <=> p <= n
  <2>1. zone > 1 => Done > 0
    BY <1>3, NextListFacts
  <2>2. \A p \in 1..l : OrderOfZones /\ p \in DOMAIN out
    BY <1>1, <1>4, <2>1, NextListFacts DEF OutInv
  <2> QED BY <1>2, <2>2 DEF OrderOfZones
<1>7. \A p, q \in 1..l : p < q => out[p].az <= out[q].az
  <2>1. zone > 1 => Done > 0
    BY <1>3, NextListFacts
  <2>2. \A p \in 1..l : OrderOfZones /\ p \in DOMAIN out
    BY <1>1, <1>4, <2>1, NextListFacts DEF OutInv
  <2> QED BY <2>2 DEF OrderOfZones
<1>8. ASSUME NEW p \in 1..(l + n)
      PROVE  /\ out'[p].az <= zone
             /\ out'[p].az = 1 <=> p <= n
             /\ out'[p].az = zone <=> p > l
  <2>1. CASE p \in 1..l
    BY <1>3, <1>4, <1>6, <2>1
  <2>2. CASE p \in (l + 1)..(l + n)
    BY <1>3, <1>4, <1>5, <2>2
  <2> QED BY <2>1, <2>2
<1>9. ASSUME NEW p \in 1..(l + n), NEW q \in 1..(l + n), p < q
      PROVE  out'[p].az <= out'[q].az
  <2>1. CASE q \in 1..l
    <3>1. p \in 1..l
      BY <1>9, <2>1
    <3> QED BY <1>4, <1>7, <1>9, <2>1, <3>1
  <2>2. CASE q \in (l + 1)..(l + n)
    BY <1>3, <1>5, <1>8, <2>2
  <2> QED BY <2>1, <2>2
<1> QED BY <1>2, <1>3, <1>8, <1>9 DEF OrderOfZones

LEMMA NextApart ==
  ASSUME IInv, NextZone
  PROVE  NeighboursApart'
<1>1. PICK l \in Nat : l = Len(out)
  BY NextListFacts
<1>2. PICK n \in Nat : n = Len(Ordered)
  BY NextListFacts
<1>3. /\ \A p \in 1..l : out'[p] = out[p] /\ out[p].az \in Nat /\ out[p].az <= zone - 1
      /\ \A h \in 1..n : out'[l + h] = here[h] /\ here[h].az = zone
      /\ zone \in Nat \ {0} /\ Len(out') = l + n
  BY <1>1, <1>2, NextListFacts, EarlierZones
<1>4. ASSUME NEW p \in 2..(l + n), out'[p - 1].az = out'[p].az
      PROVE  ~IsOverlapping(out'[p - 1].cidr, out'[p].cidr)
  <2>1. CASE p \in 1..l
    <3>1. p - 1 \in 1..l
      BY <2>1
    <3>2. zone > 1
      BY <1>1, <2>1, EarlierZones
    <3>3. NeighboursApart
      BY <1>3, <3>2, NextListFacts DEF OutInv
    <3>4. out[p - 1].az = out[p].az
      BY <1>3, <1>4, <2>1, <3>1
    <3>5. p \in 2..Len(out)
      BY <1>1, <2>1
    <3> QED BY <1>3, <2>1, <3>1, <3>3, <3>4, <3>5 DEF NeighboursApart
  <2>2. CASE p = l + 1
    <3>1. p - 1 \in 1..l /\ p = l + 1 /\ 1 \in 1..n
      BY <2>2
    <3> QED BY <1>3, <1>4, <3>1
  <2>3. CASE p \in (l + 2)..(l + n)
    <3>1. PICK h \in 1..n : p = l + h /\ h > 1 /\ h - 1 \in 1..n /\ p - 1 = l + (h - 1)
      <4>1. /\ p - l \in 1..n /\ p = l + (p - l) /\ p - l > 1
            /\ (p - l) - 1 \in 1..n /\ p - 1 = l + ((p - l) - 1)
        BY <2>3
      <4> QED BY <4>1
    <3>2. out'[p] = here[h] /\ out'[p - 1] = here[h - 1]
      BY <1>3, <3>1
    <3>3. h \in 1..Len(here)
      BY <1>2, NextListFacts
    <3>4. ~IsOverlapping(here[h - 1].cidr, here[h].cidr)
      BY <3>1, <3>3, NextListFacts, ZoneFacts
    <3> QED BY <3>2, <3>4
  <2> QED BY <2>1, <2>2, <2>3
<1> QED BY <1>3, <1>4 DEF NeighboursApart, IsOverlapping, Disjoint, BlockOf, End

-----------------------------------------------------------------------------
LEMMA BlocksOfZone ==
  ASSUME Placing, IsUniform, NEW i \in Nat \ {0}, NEW s \in Seq(SubnetOut),
         ZoneOK(i, s), Contiguous(i, s), NEW h \in 1..Len(s)
  PROVE  /\ BlockOf(s[h].cidr).base = StartOfSize(i, h)
         /\ End(BlockOf(s[h].cidr)) = StartOfSize(i, h + 1)
         /\ h = 1 => StartOfSize(i, h) = AzBase(i)
<1>1. /\ h \in 1..Len(Ordered) /\ s[h].cidr \in Cidr
      /\ s[h].cidr.mask = MaskOf(Ordered[h]) /\ MaskOf(Ordered[h]) <= Width
  BY ZoneFacts
<1>2. MaskOf(Ordered[1]) <= Width /\ 1 \in 1..Len(s) /\ h \in DOMAIN s
  <2>1. 1 \in 1..Len(s)
    OBVIOUS
  <2> QED BY <2>1, ZoneFacts
<1>3. /\ MaskOf(Ordered[h]) = MaskOf(Ordered[1])
      /\ StartOfSize(i, h) % BlockSize[MaskOf(Ordered[1])] = 0
      /\ StartOfSize(i, 1) = AzBase(i)
      /\ StartOfSize(i, h) + BlockSize[MaskOf(Ordered[1])] = StartOfSize(i, h + 1)
  BY <1>1, <1>2, UniformFacts
<1>4. s[h].cidr.addr = StartOfSize(i, h)
  BY <1>2 DEF Contiguous
<1> QED BY <1>1, <1>3, <1>4, AlignedBlock

LEMMA NextBackToBack ==
  ASSUME IInv, NextZone, IsUniform
  PROVE  \A p \in DOMAIN out' :
           BlockOf(out'[p].cidr).base =
             IF p > 1 /\ out'[p - 1].az = out'[p].az
             THEN End(BlockOf(out'[p - 1].cidr)) ELSE AzBase(out'[p].az)
<1>1. PICK l \in Nat : l = Len(out)
  BY NextListFacts
<1>2. PICK n \in Nat : n = Len(Ordered)
  BY NextListFacts
<1>3. /\ \A p \in 1..l : out'[p] = out[p] /\ out[p].az \in Nat /\ out[p].az <= zone - 1
      /\ \A h \in 1..n : out'[l + h] = here[h] /\ here[h].az = zone
      /\ zone \in Nat \ {0} /\ DOMAIN out' = 1..(l + n)
  BY <1>1, <1>2, NextListFacts, EarlierZones
<1>4. ASSUME NEW h \in 1..n
      PROVE  /\ BlockOf(here[h].cidr).base = StartOfSize(zone, h)
             /\ End(BlockOf(here[h].cidr)) = StartOfSize(zone, h + 1)
             /\ h = 1 => StartOfSize(zone, h) = AzBase(zone)
  BY <1>2, NextListFacts, BlocksOfZone
<1>5. SUFFICES ASSUME NEW p \in 1..(l + n)
               PROVE  BlockOf(out'[p].cidr).base =
                        IF p > 1 /\ out'[p - 1].az = out'[p].az
                        THEN End(BlockOf(out'[p - 1].cidr)) ELSE AzBase(out'[p].az)
  BY <1>3
<1>6. CASE p \in 1..l
  <2>1. zone > 1
    BY <1>1, <1>6, EarlierZones
  <2>2. BackToBack /\ p \in DOMAIN out
    BY <1>1, <1>6, <2>1, NextListFacts DEF OutInv
  <2>3. p > 1 => out'[p - 1] = out[p - 1]
    BY <1>3, <1>6
  <2> QED BY <1>3, <1>6, <2>2, <2>3 DEF BackToBack
<1>7. CASE p = l + 1
  <2>1. 1 \in 1..n /\ out'[p] = here[1]
    BY <1>3, <1>7
  <2>2. p > 1 => out'[p - 1].az # out'[p].az
    <3>1. p > 1 => p - 1 \in 1..l
      BY <1>7
    <3> QED BY <1>3, <2>1, <3>1
  <2> QED BY <1>3, <1>4, <2>1, <2>2
<1>8. CASE p \in (l + 2)..(l + n)
  <2>1. PICK h \in 1..n : p = l + h /\ h > 1 /\ h - 1 \in 1..n /\ p - 1 = l + (h - 1)
    <3>1. /\ p - l \in 1..n /\ p = l + (p - l) /\ p - l > 1
          /\ (p - l) - 1 \in 1..n /\ p - 1 = l + ((p - l) - 1)
      BY <1>8
    <3> QED BY <3>1
  <2>2. out'[p] = here[h] /\ out'[p - 1] = here[h - 1] /\ p > 1
    BY <1>3, <1>8, <2>1
  <2>3. (h - 1) + 1 = h
    OBVIOUS
  <2>4. End(BlockOf(here[h - 1].cidr)) = BlockOf(here[h].cidr).base
    BY <1>4, <2>1, <2>3
  <2> QED BY <1>3, <2>1, <2>2, <2>4
<1> QED BY <1>6, <1>7, <1>8

LEMMA NextAlike ==
  ASSUME IInv, NextZone, Fitting
  PROVE  \A p \in DOMAIN out' :
           p <= LastStart' => out'[p + Len(Ordered)] = InNextZone(out'[p])
<1>1. PICK l \in Nat : l = Len(out)
  BY NextListFacts
<1>2. PICK n \in Nat : n = Len(Ordered)
  BY NextListFacts
<1>3. /\ \A p \in 1..l : out'[p] = out[p]
      /\ \A h \in 1..n : out'[l + h] = here[h]
      /\ DOMAIN out' = 1..(l + n) /\ LastStart' = l /\ DOMAIN out = 1..l
      /\ DOMAIN here = 1..n /\ zone \in Nat \ {0} /\ Done = zone - 1
  BY <1>1, <1>2, NextListFacts, LastZoneIsHere
<1>4. SUFFICES ASSUME NEW p \in 1..l
               PROVE  out'[p + n] = InNextZone(out[p])
  BY <1>2, <1>3
<1>5. zone > 1 /\ n <= l
  BY <1>1, <1>2, EarlierZones
<1>6. LastStart = l - n
  BY <1>1, <1>2 DEF LastStart
<1>7. CASE p <= l - n
  <2>1. NextIsAlike
    BY <1>3, <1>5, NextListFacts DEF OutInv
  <2>2. out[p + n] = InNextZone(out[p])
    BY <1>2, <1>3, <1>6, <1>7, <2>1 DEF NextIsAlike
  <2>3. p + n \in 1..l
    BY <1>7
  <2> QED BY <1>3, <2>2, <2>3
<1>8. CASE p > l - n
  <2>1. PICK h \in 1..n : p = (l - n) + h /\ p + n = l + h
    <3>1. /\ p - (l - n) \in 1..n /\ p = (l - n) + (p - (l - n))
          /\ p + n = l + (p - (l - n))
      BY <1>5, <1>8
    <3> QED BY <3>1
  <2>2. LastZone[h] = out[p]
    BY <1>2, <1>6, <2>1 DEF LastZone
  <2>3. here[h] = InNextZone(LastZone[h])
    <3>1. Done > 0 /\ phase = "placing"
      BY <1>3, <1>5, NextListFacts
    <3>2. HereInv
      BY NextListFacts DEF IInv
    <3> QED BY <1>3, <3>1, <3>2 DEF HereInv
  <2> QED BY <1>3, <2>1, <2>2, <2>3
<1> QED BY <1>3, <1>5, <1>7, <1>8

LEMMA NextZoneInv ==
  ASSUME IInv, NextZone
  PROVE  IInv'
<1>1. /\ TypeOK /\ Placing /\ StepInv /\ phase = "placing"
      /\ request' = request /\ subnetsIn' = subnetsIn
      /\ zone \in Nat \ {0} /\ Done' = zone
      /\ request.specs # Undefined /\ ZoneOK(zone, here)
  BY NextListFacts
<1>2. zone' \in Nat \ {0} /\ zone' \in 1..request.azCount
  <2>1. zone \in 1..request.azCount /\ request.azCount \in Nat
    BY <1>1, RequestFacts DEF TypeOK
  <2> QED BY <1>1, <2>1 DEF NextZone, IsLastZone
<1>3. TypeOK'
  <2>1. phase' \in LegacyPhases /\ here' \in Seq(SubnetOut)
    <3>1. phase' \in {"returned", phase} /\ here' \in {here, <<>>}
      BY DEF NextZone
    <3>2. <<>> \in Seq(SubnetOut)
      OBVIOUS
    <3> QED BY <1>1, <3>1, <3>2 DEF LegacyPhases, TypeOK
  <2>2. current' \in Cidr \cup {Undefined}
    <3>1. BeforeSlice(zone + 1) \in Cidr
      BY <1>1, BeforeSliceFacts
    <3> QED BY <1>1, <3>1 DEF NextZone, TypeOK
  <2>3. out' \in Seq(SubnetOut)
    BY NextListFacts
  <2>4. request' \in Requests /\ filtered' \in Nat /\ SubnetOut' = SubnetOut
        /\ subnetsIn' \in [PlacedTypes -> Seq(LegacySpec)]
    BY <1>1, CallFrame DEF NextZone, TypeOK
  <2> QED BY <1>1, <1>2, <2>1, <2>2, <2>3, <2>4 DEF TypeOK
<1>4. FilteredByType'
  BY <1>1, SpecsFrame DEF Placing
<1>5. StepInv'
  BY <1>1, CallFrame DEF StepInv, NextZone, IsLastZone
<1>6. HereInv'
  <2> SUFFICES ASSUME phase' = "placing"
               PROVE  HereInv'
    BY DEF HereInv
  <2>1. current' = BeforeSlice(zone') /\ here' = <<>>
    BY <1>1 DEF NextZone, IsLastZone
  <2>2. Placing' /\ Ordered' = Ordered /\ Len(Ordered) \in Nat
    BY <1>1, SpecsFrame, NextListFacts
  <2>3. Len(<<>>) = 0 /\ DOMAIN <<>> = {}
    OBVIOUS
  <2>4. ZoneOK(zone, here)'
    BY <2>1, <2>2, <2>3 DEF ZoneOK
  <2>5. Contiguous(zone, here)'
    BY <2>1, <2>3 DEF Contiguous
  <2>6. (current = CurrentAt(zone, here, Len(here) + 1))'
    BY <1>1, <2>1, <2>3, CallFrame DEF CurrentAt
  <2> QED BY <2>1, <2>2, <2>3, <2>4, <2>5, <2>6 DEF HereInv
<1>7. OutInv'
  <2>1. Ordered' = Ordered /\ LastZone' = here /\ Len(Ordered) <= Len(out')
    BY <1>1, SpecsFrame, LastZoneIsHere, NextListFacts
  <2>2. ZoneOK(Done, LastZone)'
    BY <1>1, <2>1, SpecsFrame, CallFrame DEF ZoneOK
  <2>3. BackToBack'
    <3>1. IsUniform' = IsUniform
      BY <1>1, SpecsFrame
    <3> QED BY <1>1, <3>1, NextBackToBack, CallFrame DEF BackToBack
  <2>4. NextIsAlike'
    <3>1. Fitting' = Fitting
      BY <1>1, SpecsFrame
    <3> QED BY <1>1, <2>1, <3>1, NextAlike, CallFrame DEF NextIsAlike
  <2> QED BY <1>1, <2>1, <2>2, <2>3, <2>4, NextOrder, NextApart DEF OutInv
<1> QED BY <1>1, <1>3, <1>4, <1>5, <1>6, <1>7 DEF IInv

LEMMA StutterInv ==
  ASSUME IInv, UNCHANGED vars
  PROVE  IInv'
<1>1. /\ request' = request /\ subnetsIn' = subnetsIn /\ phase' = phase
      /\ filtered' = filtered /\ zone' = zone /\ current' = current
      /\ here' = here /\ out' = out
  BY DEF vars
<1>2. TypeOK'
  BY <1>1, CallFrame DEF IInv, TypeOK
<1>3. FilteredByType'
  BY <1>1, SpecsFrame DEF IInv
<1>4. DefaultInv' = DefaultInv
  BY <1>1, CallFrame DEF DefaultInv
<1>5. Done' = Done
  BY <1>1 DEF Done
<1>6. ASSUME request.specs # Undefined
      PROVE  StepInv' /\ HereInv' /\ OutInv'
  <2>1. StepInv /\ HereInv /\ OutInv
    BY <1>6 DEF IInv
  <2>2. StepInv'
    BY <1>1, <2>1, CallFrame DEF StepInv
  <2>3. OutInv' /\ LastZone' = LastZone
    BY <1>1, <1>5, <2>1, OutFrame
  <2>4. HereInv'
    <3>1. Placing' = Placing /\ Fitting' = Fitting
      BY <1>1, SpecsFrame
    <3>2. ZoneOK(zone, here)' = ZoneOK(zone, here)
      BY <1>1, SpecsFrame, CallFrame DEF ZoneOK
    <3>3. Contiguous(zone, here)' = Contiguous(zone, here)
      BY <1>1, SpecsFrame DEF Contiguous
    <3>4. CurrentAt(zone, here, Len(here) + 1)' = CurrentAt(zone, here, Len(here) + 1)
      BY <1>1, CallFrame DEF CurrentAt
    <3>5. \A h : InNextZone(LastZone[h])' = InNextZone(LastZone[h])
      BY <1>1, <2>3, CallFrame DEF InNextZone
    <3> QED BY <1>1, <1>5, <2>1, <3>1, <3>2, <3>3, <3>4, <3>5 DEF HereInv
  <2> QED BY <2>2, <2>3, <2>4
<1> QED BY <1>1, <1>2, <1>3, <1>4, <1>6 DEF IInv

LEMMA LegacyStepInv ==
  ASSUME IInv, [Next]_vars
  PROVE  IInv'
<1>1. CASE RefuseSplit
  BY <1>1, ThrowInv DEF RefuseSplit
<1>2. CASE ReturnDefaults
  BY <1>2, ReturnDefaultsInv
<1>3. CASE Split
  BY <1>3, SplitInv
<1>4. CASE FilterSpec
  BY <1>4, FilterSpecInv
<1>5. CASE StartFirstZone
  BY <1>5, StartFirstZoneInv
<1>6. CASE RefuseAddressZero
  BY <1>6, ThrowInv DEF RefuseAddressZero
<1>7. CASE PlaceSubnet
  BY <1>7, PlaceSubnetInv
<1>8. CASE RefuseMask
  BY <1>8, ThrowInv DEF RefuseMask
<1>9. CASE NextZone
  BY <1>9, NextZoneInv
<1>10. CASE UNCHANGED vars
  BY <1>10, StutterInv
<1> QED
  BY <1>1, <1>2, <1>3, <1>4, <1>5, <1>6, <1>7, <1>8, <1>9, <1>10 DEF Next

LEMMA LegacyInvariance == Spec => []IInv
<1>1. IInv /\ [Next]_vars => IInv'
  BY LegacyStepInv
<1> QED BY <1>1, InitInv, PTL DEF Spec

-----------------------------------------------------------------------------
LEMMA IsInNextZone ==
  ASSUME NEW o \in SubnetOut, NEW p \in SubnetOut,
         p.az = o.az + 1, p.type = o.type, p.name = o.name,
         p.cidr = Shifted(o.cidr)
  PROVE  p = InNextZone(o)
BY DEF InNextZone, Shifted, SubnetOut

(* The default layout, entry by entry.                                     *)
LEMMA DefaultLayout ==
  ASSUME TypeOK, DefaultInv, request.specs = Undefined, phase = "returned"
  PROVE  /\ request.azCount \in Nat \ {0}
         /\ BlockSize[AzMask + 1] \in Nat \ {0} /\ BlockSize[AzMask + 2] \in Nat \ {0}
         /\ DOMAIN out = 1..(request.azCount + request.azCount)
         /\ \A i \in 1..request.azCount :
              /\ out[i].az = i /\ out[request.azCount + i].az = i
              /\ i < request.azCount =>
                   /\ out[i + 1] = InNextZone(out[i])
                   /\ out[request.azCount + (i + 1)]
                        = InNextZone(out[request.azCount + i])
              /\ ~IsOverlapping(out[i].cidr, out[request.azCount + i].cidr)
<1>1. /\ request \in Requests /\ out = DefaultSubnets /\ AzMask + 2 <= Width
  BY DEF TypeOK, DefaultInv
<1>2. PICK n \in Nat \ {0} : n = request.azCount
  BY <1>1, RequestFacts
<1>3. /\ AzMask + 1 \in Masks /\ AzMask + 2 \in Masks
      /\ BlockSize[AzMask] = 2 * BlockSize[AzMask + 1]
      /\ BlockSize[AzMask + 1] = 2 * BlockSize[AzMask + 2]
      /\ DOMAIN out = 1..(n + n)
  BY <1>1, <1>2, DefaultFacts
<1> DEFINE one == BlockSize[AzMask + 1]
           two == BlockSize[AzMask + 2]
           private(i) == [az |-> i, type |-> "private", name |-> Undefined,
                          cidr |-> [addr |-> AzBase(i), mask |-> AzMask + 1]]
           public(i) == [az |-> i, type |-> "public", name |-> Undefined,
                         cidr |-> [addr |-> AzBase(i) + one, mask |-> AzMask + 2]]
<1>4. \A i \in 1..n : out[i] = private(i) /\ out[n + i] = public(i)
  BY <1>1, <1>2, DefaultFacts
<1>5. one \in Nat \ {0} /\ two \in Nat \ {0}
  BY <1>3, SizeFacts
<1>6. /\ AzMask \in Masks /\ BlockSize[AzMask] \in Nat \ {0}
      /\ \A i \in 1..n :
           /\ AzBase(i) \in Nat /\ AzBase(i) % BlockSize[AzMask] = 0
           /\ AzBase(i + 1) = AzBase(i) + BlockSize[AzMask]
  <2>1. AzMask <= Width
    BY <1>1, RequestFacts, SliceFacts, WidthFacts
  <2> QED BY <1>1, <2>1, SliceFacts
<1>7. ASSUME NEW i \in 1..n, i < n
      PROVE  out[i + 1] = InNextZone(out[i]) /\ out[n + (i + 1)] = InNextZone(out[n + i])
  <2>1. i + 1 \in 1..n
    BY <1>7
  <2>2. /\ out[i] = private(i) /\ out[n + i] = public(i)
        /\ out[i + 1] = private(i + 1) /\ out[n + (i + 1)] = public(i + 1)
    BY <1>4, <2>1
  <2>3. AzBase(i + 1) = AzBase(i) + BlockSize[AzMask] /\ AzBase(i) \in Nat
    BY <1>6
  <2>4. AzBase(i + 1) + one = (AzBase(i) + one) + BlockSize[AzMask]
    BY <1>5, <1>6, <2>3
  <2> HIDE DEF one
  <2>5. /\ private(i) \in SubnetOut /\ private(i + 1) \in SubnetOut
        /\ public(i) \in SubnetOut /\ public(i + 1) \in SubnetOut
    <3>1. i \in DOMAIN out /\ i + 1 \in DOMAIN out /\ n + i \in DOMAIN out
          /\ n + (i + 1) \in DOMAIN out
      BY <1>3, <1>7
    <3> HIDE DEF private, public
    <3> QED BY <2>2, <3>1 DEF TypeOK
  <2>6. /\ private(i + 1).cidr = Shifted(private(i).cidr)
        /\ public(i + 1).cidr = Shifted(public(i).cidr)
    BY <2>3, <2>4 DEF Shifted
  <2>7. /\ private(i).az = i /\ private(i + 1).az = i + 1
        /\ public(i).az = i /\ public(i + 1).az = i + 1
        /\ private(i + 1).type = private(i).type /\ private(i + 1).name = private(i).name
        /\ public(i + 1).type = public(i).type /\ public(i + 1).name = public(i).name
    OBVIOUS
  <2> HIDE DEF private, public
  <2>8. private(i + 1) = InNextZone(private(i))
    BY <2>5, <2>6, <2>7, IsInNextZone
  <2>9. public(i + 1) = InNextZone(public(i))
    BY <2>5, <2>6, <2>7, IsInNextZone
  <2> QED BY <2>2, <2>8, <2>9
<1>8. ASSUME NEW i \in 1..n
      PROVE  ~IsOverlapping(out[i].cidr, out[n + i].cidr)
  <2> DEFINE base == AzBase(i)
             c == [addr |-> base, mask |-> AzMask + 1]
             d == [addr |-> base + one, mask |-> AzMask + 2]
  <2>1. base \in Nat /\ base % BlockSize[AzMask] = 0
    BY <1>6
  <2>2. out[i].cidr = c /\ out[n + i].cidr = d /\ c \in Cidr /\ d \in Cidr
    <3>1. out[i] = private(i) /\ out[n + i] = public(i)
      BY <1>4
    <3>2. private(i).cidr = c /\ public(i).cidr = d
      OBVIOUS
    <3>3. base + one \in Nat
      BY <1>5, <2>1
    <3>4. c \in Cidr /\ d \in Cidr
      BY <1>3, <2>1, <3>3 DEF Cidr
    <3> HIDE DEF private, public, c, d
    <3> QED BY <3>1, <3>2, <3>4
  <2>3. base % one = 0
    <3>1. BlockSize[AzMask] % one = 0
      <4>1. PICK x \in Nat \ {0} : x = one
        BY <1>5
      <4>2. BlockSize[AzMask] = x * 2
        BY <1>3, <4>1
      <4>3. (x * 2) % x = 0
        BY ProductIsMultiple
      <4> QED BY <4>1, <4>2, <4>3
    <3> QED BY <1>5, <1>6, <2>1, <3>1, MultipleOfMultiple
  <2>4. (base + one) % two = 0
    <3>1. one % two = 0
      <4>1. PICK x \in Nat \ {0} : x = two
        BY <1>5
      <4>2. one = x * 2
        BY <1>3, <4>1
      <4>3. (x * 2) % x = 0
        BY ProductIsMultiple
      <4> QED BY <4>1, <4>2, <4>3
    <3>2. base % two = 0
      BY <1>5, <2>1, <2>3, <3>1, MultipleOfMultiple
    <3> QED BY <1>5, <2>1, <3>1, <3>2, RemainderOfSum
  <2> HIDE DEF base, one, two
  <2>5. End(BlockOf(c)) = base + one
    BY <2>2, <2>3, AlignedBlock DEF one
  <2>6. BlockOf(d).base = base + one
    BY <2>2, <2>4, AlignedBlock DEF two
  <2>7. End(BlockOf(c)) <= BlockOf(d).base
    BY <1>5, <2>1, <2>5, <2>6
  <2> QED BY <2>2, <2>7 DEF IsOverlapping, Disjoint
<1>9. \A i \in 1..n : out[i].az = i /\ out[n + i].az = i
  <2>1. \A i : private(i).az = i /\ public(i).az = i
    OBVIOUS
  <2> HIDE DEF private, public
  <2> QED BY <1>4, <2>1
<1> QED BY <1>2, <1>3, <1>5, <1>7, <1>8, <1>9

-----------------------------------------------------------------------------
(* What the invariant says of the properties.                              *)
LEMMA NeighboursStayApart == ASSUME IInv PROVE NeighboursDisjoint
<1> SUFFICES ASSUME NEW p \in DOMAIN out, NEW q \in DOMAIN out, AreNeighbours(p, q)
             PROVE  ~IsOverlapping(out[p].cidr, out[q].cidr)
  BY DEF NeighboursDisjoint
<1>1. /\ TypeOK /\ request \in Requests /\ p < q /\ out[p].az = out[q].az
      /\ \A r \in (p + 1)..(q - 1) : out[r].az # out[p].az
  BY DEF IInv, TypeOK, AreNeighbours
<1>2. CASE request.specs = Undefined
  <2>1. DefaultInv /\ phase = "returned"
    BY <1>2 DEF IInv, DefaultInv
  <2>2. PICK n \in Nat \ {0} : n = request.azCount
    BY <1>1, RequestFacts
  <2>3. /\ p \in 1..(n + n) /\ q \in 1..(n + n)
        /\ \A i \in 1..n : /\ out[i].az = i /\ out[n + i].az = i
                           /\ ~IsOverlapping(out[i].cidr, out[n + i].cidr)
    BY <1>1, <1>2, <2>1, <2>2, DefaultLayout
  <2>4. \A r \in 1..(n + n) : r \in 1..n \/ (r > n /\ r - n \in 1..n /\ n + (r - n) = r)
    OBVIOUS
  <2>5. CASE q \in 1..n
    <3>1. p \in 1..n
      BY <1>1, <2>3, <2>5
    <3> QED BY <1>1, <2>3, <2>5, <3>1
  <2>6. CASE q > n /\ q - n \in 1..n /\ n + (q - n) = q
    <3>1. out[q].az = q - n
      BY <2>3, <2>6
    <3>2. CASE p \in 1..n
      <4>1. p = q - n
        BY <1>1, <2>3, <3>1, <3>2
      <4> QED BY <2>3, <2>6, <3>2, <4>1
    <3>3. CASE p > n /\ p - n \in 1..n /\ n + (p - n) = p
      <4>1. out[p].az = p - n
        BY <2>3, <3>3
      <4> QED BY <1>1, <2>2, <2>3, <3>1, <4>1
    <3> QED BY <2>3, <2>4, <3>2, <3>3
  <2> QED BY <2>3, <2>4, <2>5, <2>6
<1>3. CASE request.specs # Undefined
  <2>1. OrderOfZones /\ NeighboursApart
    <3>1. OutInv /\ Done \in Nat
      BY <1>1, <1>3, RequestFacts DEF IInv, TypeOK, Done
    <3> QED BY <3>1 DEF OutInv
  <2>2. /\ Len(out) \in Nat /\ DOMAIN out = 1..Len(out)
        /\ \A r \in DOMAIN out : out[r].az \in Nat
    <3>1. out \in Seq(SubnetOut) /\ Len(out) \in Nat /\ DOMAIN out = 1..Len(out)
      BY <1>1 DEF TypeOK
    <3> QED BY <1>1, <3>1, SubnetFacts
  <2>3. q = p + 1
    <3> SUFFICES ASSUME p + 1 < q
                 PROVE  FALSE
      BY <1>1, <2>2
    <3>1. p + 1 \in (p + 1)..(q - 1) /\ p + 1 \in DOMAIN out /\ p < p + 1
      BY <2>2
    <3>2. out[p].az <= out[p + 1].az /\ out[p + 1].az <= out[q].az
      BY <2>1, <3>1 DEF OrderOfZones
    <3> QED BY <1>1, <2>2, <3>1, <3>2
  <2>4. q \in 2..Len(out) /\ q - 1 = p
    BY <2>2, <2>3
  <2> QED BY <1>1, <2>1, <2>4 DEF NeighboursApart
<1> QED BY <1>2, <1>3

LEMMA UniformStaysContiguous == ASSUME IInv PROVE UniformSpecsAreContiguous
<1> SUFFICES ASSUME request.specs # Undefined,
                    \A j, k \in DOMAIN Ordered : MaskOf(Ordered[j]) = MaskOf(Ordered[k]),
                    \A j \in DOMAIN Ordered : MaskOf(Ordered[j]) >= AzMask,
                    NEW p \in DOMAIN out
             PROVE  BlockOf(out[p].cidr).base =
                      IF p > 1 /\ out[p - 1].az = out[p].az
                      THEN End(BlockOf(out[p - 1].cidr)) ELSE AzBase(out[p].az)
  BY DEF UniformSpecsAreContiguous
<1>1. IsUniform
  BY DEF IsUniform, Fitting
<1>2. OutInv /\ Done \in Nat
  BY RequestFacts DEF IInv, TypeOK, Done
<1>3. BackToBack
  BY <1>2 DEF OutInv
<1> QED BY <1>1, <1>3 DEF BackToBack

LEMMA ZonesStayAlike == ASSUME IInv PROVE ZonesAreAlike
<1> SUFFICES ASSUME phase = "returned",
                    request.specs # Undefined =>
                      \A j \in DOMAIN Ordered : MaskOf(Ordered[j]) >= AzMask,
                    NEW p \in DOMAIN out
             PROVE  /\ out[p].az < request.azCount =>
                         /\ p + Stride \in DOMAIN out
                         /\ out[p + Stride] = InNextZone(out[p])
                    /\ out[p].az > 1 =>
                         /\ p - Stride \in DOMAIN out
                         /\ out[p] = InNextZone(out[p - Stride])
  BY DEF ZonesAreAlike
<1>1. TypeOK /\ request \in Requests
  BY DEF IInv, TypeOK
<1>2. CASE request.specs = Undefined
  <2>1. DefaultInv /\ Stride = 1
    BY <1>2 DEF IInv, Stride
  <2>2. PICK n \in Nat \ {0} : n = request.azCount
    BY <1>1, RequestFacts
  <2>3. /\ DOMAIN out = 1..(n + n)
        /\ \A i \in 1..n :
             /\ out[i].az = i /\ out[n + i].az = i
             /\ i < n => /\ out[i + 1] = InNextZone(out[i])
                         /\ out[n + (i + 1)] = InNextZone(out[n + i])
    BY <1>1, <1>2, <2>1, <2>2, DefaultLayout
  <2>4. CASE p \in 1..n
    <3>1. p > 1 => p - 1 \in 1..n /\ p - 1 < n /\ (p - 1) + 1 = p
      BY <2>4
    <3>2. out[p].az = p
      BY <2>3, <2>4
    <3>3. p < n => p + 1 \in DOMAIN out
      BY <2>3, <2>4
    <3> QED BY <2>1, <2>2, <2>3, <2>4, <3>1, <3>2, <3>3
  <2>5. CASE p \in (n + 1)..(n + n)
    <3>1. PICK i \in 1..n : p = n + i
      <4>1. p - n \in 1..n /\ p = n + (p - n)
        BY <2>5
      <4> QED BY <4>1
    <3>2. out[p].az = i
      BY <2>3, <3>1
    <3>3. i < n => p + 1 = n + (i + 1) /\ n + (i + 1) \in DOMAIN out
      BY <2>3, <3>1
    <3>4. i > 1 => /\ i - 1 \in 1..n /\ i - 1 < n /\ (i - 1) + 1 = i
                   /\ p - 1 = n + (i - 1) /\ n + (i - 1) \in DOMAIN out
      BY <2>3, <3>1
    <3> QED BY <2>1, <2>2, <2>3, <3>1, <3>2, <3>3, <3>4
  <2> QED BY <2>3, <2>4, <2>5
<1>3. CASE request.specs # Undefined
  <2>1. Fitting /\ Stride = Len(Ordered)
    BY <1>3 DEF Fitting, Stride
  <2>2. /\ OutInv /\ StepInv /\ FilteredByType
        /\ Done = request.azCount /\ request.azCount \in Nat \ {0}
    BY <1>1, <1>3, RequestFacts DEF IInv, StepInv, Done
  <2>3. /\ Len(Ordered) <= Len(out) /\ OrderOfZones /\ NextIsAlike
    BY <2>2 DEF OutInv
  <2>4. PICK n \in Nat : n = Len(Ordered)
    BY <2>2, OrderedFacts
  <2>5. PICK l \in Nat : l = Len(out) /\ DOMAIN out = 1..l
    BY <1>1 DEF TypeOK
  <2>6. n <= l /\ LastStart = l - n
    BY <2>3, <2>4, <2>5 DEF LastStart
  <2>7. out[p].az \in Nat /\ out[p].az <= request.azCount /\ out[p].az >= 1
    BY <1>1, SubnetFacts, <2>2, <2>5 DEF TypeOK
  <2>8. /\ out[p].az = 1 <=> p <= n
        /\ out[p].az = request.azCount <=> p > l - n
    BY <2>2, <2>3, <2>4, <2>6 DEF OrderOfZones
  <2>9. \A q \in 1..l : q <= l - n => out[q + n] = InNextZone(out[q])
    BY <2>1, <2>3, <2>4, <2>5, <2>6 DEF NextIsAlike
  <2>10. ASSUME out[p].az < request.azCount
         PROVE  p + n \in 1..l /\ out[p + n] = InNextZone(out[p])
    BY <2>2, <2>5, <2>6, <2>7, <2>8, <2>9, <2>10
  <2>11. ASSUME out[p].az > 1
         PROVE  p - n \in 1..l /\ out[p] = InNextZone(out[p - n])
    <3>1. p > n /\ p \in 1..l
      BY <2>5, <2>7, <2>8, <2>11
    <3>2. p - n \in 1..l /\ p - n <= l - n /\ (p - n) + n = p
      BY <3>1
    <3> QED BY <2>9, <3>2
  <2> QED BY <2>1, <2>4, <2>5, <2>10, <2>11
<1> QED BY <1>2, <1>3

(* getSubnetSpecsLegacy returns typed subnets of which none overlaps the   *)
(* one before it in its zone, back to back where all sizes are the same,   *)
(* and the same in every zone unless a spec is larger than a zone's slice: *)
(* whatever the range, the number of zones, the specs and their order.     *)
THEOREM LayoutStaysRegular == Spec => []LayoutIsRegular
<1>1. IInv => LayoutIsRegular
  BY NeighboursStayApart, UniformStaysContiguous, ZonesStayAlike
     DEF IInv, LayoutIsRegular
<1> QED BY <1>1, LegacyInvariance, PTL

-----------------------------------------------------------------------------
(* Sizes: each divides the larger ones, and multiples of one lie at least  *)
(* that far apart.                                                         *)
LEMMA MultiplesApart ==
  ASSUME NEW s \in Nat \ {0}, NEW x \in Nat, NEW y \in Nat,
         x % s = 0, y % s = 0, x < y
  PROVE  x + s <= y
<1>1. PICK p \in Nat : x = s * p
  BY MultipleIsProduct
<1>2. PICK q \in Nat : y = s * q
  BY MultipleIsProduct
<1>3. p < q
  <2> SUFFICES ASSUME q <= p PROVE FALSE
    BY <1>1, <1>2
  <2>1. s * q <= s * p
    OBVIOUS
  <2> QED BY <1>1, <1>2, <2>1
<1>4. s * (p + 1) <= s * q /\ s * (p + 1) = s * p + s
  BY <1>3
<1> QED BY <1>1, <1>2, <1>4

LEMMA MultipleIsLarger ==
  ASSUME NEW s \in Nat \ {0}, NEW x \in Nat \ {0}, x % s = 0
  PROVE  s <= x
<1>1. 0 % s = 0
  BY ProductIsMultiple
<1> QED BY <1>1, MultiplesApart

LEMMA SizesDivide ==
  ASSUME NEW m \in Masks, NEW n \in Masks, BlockSize[m] <= BlockSize[n]
  PROVE  BlockSize[n] % BlockSize[m] = 0
<1>1. /\ m \in 0..Width /\ n \in 0..Width
      /\ BlockSize[m] \in Nat \ {0} /\ BlockSize[n] \in Nat \ {0}
  BY SizeFacts
<1>2. CASE n <= m
  BY <1>1, <1>2, BlockSizeAssumption
<1>3. CASE m < n
  <2>1. BlockSize[m] % BlockSize[n] = 0
    <3>1. m <= n
      BY <1>1, <1>3
    <3> QED BY <1>1, <3>1, BlockSizeAssumption
  <2>2. BlockSize[n] <= BlockSize[m]
    BY <1>1, <2>1, MultipleIsLarger
  <2>3. BlockSize[n] = BlockSize[m]
    BY <1>1, <2>2
  <2> QED BY <2>1, <2>3
<1> QED BY <1>1, <1>2, <1>3

(* The end of a block is one of the smaller ones', too.                    *)
LEMMA EndIsMultiple ==
  ASSUME NEW c \in Cidr, NEW m \in Masks, BlockSize[m] <= BlockSize[c.mask]
  PROVE  End(BlockOf(c)) % BlockSize[m] = 0
<1> DEFINE s == BlockSize[c.mask]
           t == BlockSize[m]
           b == BlockOf(c).base
<1>1. /\ s \in Nat \ {0} /\ t \in Nat \ {0}
      /\ b \in Nat /\ b % s = 0 /\ End(BlockOf(c)) = b + s
  BY BlockFacts, SizeFacts
<1>2. s % t = 0
  BY BlockFacts, SizesDivide
<1> HIDE DEF s, t, b
<1>3. b % t = 0
  BY <1>1, <1>2, MultipleOfMultiple
<1>4. (b + s) % t = 0
  BY <1>1, <1>2, <1>3, RemainderOfSum
<1> QED BY <1>1, <1>4 DEF t

-----------------------------------------------------------------------------
(* What nextBlock chooses: the block behind the one of that size that      *)
(* holds the last address.                                                 *)
LEMMA MovedFacts ==
  ASSUME NEW c \in Cidr, NEW m \in Masks
  PROVE  LET e == End(BlockOf(c)) - 1
             b == BlockOf([addr |-> e, mask |-> m])
         IN  /\ e \in Nat /\ [addr |-> e, mask |-> m] \in Cidr
             /\ b.base \in Nat /\ b.base % BlockSize[m] = 0
             /\ b.base <= e /\ e < b.base + BlockSize[m]
             /\ NextBlockAfter(c, m).addr = b.base + BlockSize[m]
             /\ NextBlockAfter(c, m).mask = m
<1> DEFINE e == End(BlockOf(c)) - 1
           d == [addr |-> e, mask |-> m]
<1>1. e \in Nat
  BY BlockFacts
<1>2. d \in Cidr /\ d.addr = e /\ d.mask = m
  BY <1>1 DEF Cidr
<1>3. NextBlockAfter(c, m) = [addr |-> End(BlockOf(d)), mask |-> m]
  BY DEF NextBlockAfter, BlockOf
<1> HIDE DEF d, e
<1>4. /\ BlockOf(d).base \in Nat /\ BlockOf(d).base % BlockSize[m] = 0
      /\ End(BlockOf(d)) = BlockOf(d).base + BlockSize[m]
      /\ BlockOf(d).base <= e /\ e < BlockOf(d).base + BlockSize[m]
  BY <1>2, BlockFacts
<1> QED BY <1>1, <1>2, <1>3, <1>4 DEF d, e

(* Of a smaller size, that is the block right behind.                      *)
LEMMA MovedIsAdjacent ==
  ASSUME NEW c \in Cidr, NEW m \in Masks, BlockSize[m] <= BlockSize[c.mask]
  PROVE  NextBlockAfter(c, m).addr = End(BlockOf(c))
<1> DEFINE t == BlockSize[m]
           e == End(BlockOf(c))
           b == BlockOf([addr |-> e - 1, mask |-> m]).base
<1>1. /\ e \in Nat /\ t \in Nat \ {0} /\ b \in Nat /\ b % t = 0
      /\ b <= e - 1 /\ e - 1 < b + t
      /\ NextBlockAfter(c, m).addr = b + t
  BY MovedFacts, BlockFacts, SizeFacts
<1>2. e % t = 0
  BY EndIsMultiple
<1> HIDE DEF t, e, b
<1>3. b + t <= e
  <2>1. b < e
    BY <1>1
  <2> QED BY <1>1, <1>2, <2>1, MultiplesApart
<1>4. b + t = e
  BY <1>1, <1>3
<1> QED BY <1>1, <1>4 DEF e

(* A subnet that was moved lies behind the place the formula chose.        *)
LEMMA MovedIsBeyond ==
  ASSUME NEW c \in Cidr, NEW d \in Cidr, IsOverlapping(c, d)
  PROVE  d.addr < NextBlockAfter(c, d.mask).addr
<1> DEFINE t == BlockSize[d.mask]
           e == End(BlockOf(c))
           b == BlockOf([addr |-> e - 1, mask |-> d.mask]).base
           k == BlockOf(d).base
<1>1. /\ t \in Nat \ {0} /\ k \in Nat /\ k % t = 0
      /\ d.addr \in Nat /\ d.addr < k + t
  BY BlockFacts, SizeFacts
<1>2. k < e /\ e \in Nat
  BY BlockFacts DEF IsOverlapping, Disjoint
<1>3. /\ b \in Nat /\ b % t = 0 /\ e - 1 < b + t
      /\ NextBlockAfter(c, d.mask).addr = b + t
  BY MovedFacts, BlockFacts
<1> HIDE DEF t, e, b, k
<1>4. ~(b < k)
  <2> SUFFICES ASSUME b < k PROVE FALSE
    OBVIOUS
  <2>1. b + t <= k
    BY <1>1, <1>3, MultiplesApart
  <2> QED BY <1>1, <1>2, <1>3, <2>1
<1> QED BY <1>1, <1>3, <1>4

-----------------------------------------------------------------------------
(* Two specs that follow one another: of one type, and counted from the    *)
(* same base, or the second is the first of its type and is counted from   *)
(* where the one before it ends.                                           *)
LEMMA PrecedingFacts ==
  ASSUME FilteredByType, NEW h \in 1..Len(Ordered)
  PROVE  PrecedingAt(h) =
           IF h <= Privates THEN {}
           ELSE IF h <= Privates + Publics \/ Publics = 0 THEN 1..Privates
                ELSE (Privates + 1)..(Privates + Publics)
<1> DEFINE a == Privates
           b == Publics
           type == Ordered[h].type
<1>1. a \in Nat /\ b \in Nat /\ h \in Nat \ {0} /\ h <= Len(Ordered)
  BY OrderedFacts
<1>2. \A q \in 1..h :
        /\ Ordered[q].type \in PlacedTypes
        /\ Ordered[q].type = "private" <=> q <= a
        /\ Ordered[q].type = "public" <=> (a < q /\ q <= a + b)
  BY <1>1, OrderedFacts
<1> HIDE DEF a, b
<1>3. CASE h <= a
  <2>1. type = "private"
    BY <1>1, <1>2, <1>3
  <2> QED BY <1>3, <2>1 DEF PrecedingAt, a
<1>4. CASE a < h
  <2>1. Before(h, "private") = 1..a
    BY <1>1, <1>2, <1>4 DEF Before
  <2>2. CASE h <= a + b
    <3>1. type = "public"
      BY <1>1, <1>2, <1>4, <2>2
    <3>2. PrecedingAt(h) = 1..a
      BY <2>1, <3>1 DEF PrecedingAt
    <3> QED BY <1>1, <1>4, <2>2, <3>2 DEF a, b
  <2>3. CASE a + b < h
    <3>1. type = "isolated"
      BY <1>1, <1>2, <1>4, <2>3 DEF PlacedTypes
    <3>2. Before(h, "public") = (a + 1)..(a + b)
      BY <1>1, <1>2, <2>3 DEF Before
    <3>3. (a + 1)..(a + b) # {} <=> b # 0
      <4>1. b # 0 => a + 1 \in (a + 1)..(a + b)
        BY <1>1
      <4>2. b = 0 => \A x \in (a + 1)..(a + b) : FALSE
        BY <1>1
      <4> QED BY <4>1, <4>2
    <3>4. PrecedingAt(h) = IF b # 0 THEN (a + 1)..(a + b) ELSE 1..a
      BY <2>1, <3>1, <3>2, <3>3 DEF PrecedingAt
    <3> QED BY <1>1, <1>4, <2>3, <3>4 DEF a, b
  <2> QED BY <1>1, <2>2, <2>3
<1> QED BY <1>1, <1>3, <1>4

LEMMA SameOrNewType ==
  ASSUME FilteredByType, NEW h \in 2..Len(Ordered)
  PROVE  /\ h - 1 \in 1..Len(Ordered) /\ h \in 1..Len(Ordered)
         /\ \/ /\ PrecedingAt(h) = PrecedingAt(h - 1)
               /\ CountAt(h) = CountAt(h - 1) + 1
            \/ /\ PrecedingAt(h) # {}
               /\ LastOf(PrecedingAt(h)) = h - 1
               /\ CountAt(h) = 0
<1> DEFINE g == h - 1
<1>1. /\ Privates \in Nat /\ Publics \in Nat
      /\ h \in 1..Len(Ordered) /\ g \in 1..Len(Ordered) /\ g \in Nat /\ h = g + 1
  BY OrderedFacts
<1> HIDE DEF g
<1>2. PICK a \in Nat : a = Privates
  BY <1>1
<1>3. PICK b \in Nat : b = Publics
  BY <1>1
<1> DEFINE P(k) == IF k <= a THEN {}
                   ELSE IF k <= a + b \/ b = 0 THEN 1..a ELSE (a + 1)..(a + b)
<1>4. PrecedingAt(h) = P(h) /\ PrecedingAt(g) = P(g)
  BY <1>1, <1>2, <1>3, PrecedingFacts
<1>5. /\ CountAt(h) \in Nat /\ CountAt(g) \in Nat
      /\ PrecedingAt(h) = {} => CountAt(h) = h - 1
      /\ PrecedingAt(g) = {} => CountAt(g) = g - 1
      /\ PrecedingAt(h) # {} => LastOf(PrecedingAt(h)) + CountAt(h) = h - 1
      /\ PrecedingAt(h) # {} => LastOf(PrecedingAt(h)) \in 1..(h - 1)
      /\ PrecedingAt(g) # {} => LastOf(PrecedingAt(g)) + CountAt(g) = g - 1
      /\ PrecedingAt(g) # {} => LastOf(PrecedingAt(g)) \in 1..(g - 1)
  BY <1>1, CountFacts
<1>6. CASE P(h) = P(g)
  <2>1. CountAt(h) = CountAt(g) + 1
    <3>1. CASE P(h) = {}
      BY <1>1, <1>4, <1>5, <1>6, <3>1, SMTT(30)
    <3>2. CASE P(h) # {}
      <4>1. PICK l \in Nat : l = LastOf(PrecedingAt(h))
        BY <1>4, <1>5, <3>2
      <4> HIDE DEF P
      <4>2. l + CountAt(h) = h - 1 /\ l + CountAt(g) = g - 1
        BY <1>4, <1>5, <1>6, <3>2, <4>1
      <4> QED BY <1>1, <1>5, <4>2
    <3> QED BY <3>1, <3>2
  <2> HIDE DEF P
  <2> QED BY <1>1, <1>4, <1>6, <2>1 DEF g
<1>7. CASE P(h) # P(g)
  <2>1. \/ g = a /\ P(h) = 1..a /\ a > 0
        \/ g = a + b /\ P(h) = (a + 1)..(a + b) /\ b > 0
    BY <1>1, <1>7
  <2> HIDE DEF P
  <2>2. P(h) # {} /\ LastOf(P(h)) = g
    <3>1. CASE g = a /\ P(h) = 1..a /\ a > 0
      <4>1. a \in 1..a
        BY <3>1
      <4> QED BY <3>1, <4>1, LastOfRange
    <3>2. CASE g = a + b /\ P(h) = (a + 1)..(a + b) /\ b > 0
      <4>1. a + b \in (a + 1)..(a + b) /\ a + 1 \in Nat /\ a + b \in Nat
            /\ a + 1 <= a + b /\ a + 1 > 0
        BY <3>2
      <4> QED BY <3>2, <4>1, LastOfRange
    <3> QED BY <2>1, <3>1, <3>2
  <2>3. CountAt(h) = 0
    BY <1>1, <1>4, <1>5, <2>2
  <2> QED BY <1>1, <1>4, <2>2, <2>3 DEF g
<1> QED BY <1>1, <1>6, <1>7 DEF g

(* A subnet whose address is its block's own ends at least its size behind *)
(* the place that the formula chose.                                       *)
LEMMA EndsBeyondCandidate ==
  ASSUME Placing, NEW i \in Nat \ {0}, NEW s \in Seq(SubnetOut), ZoneOK(i, s),
         NEW h \in 1..Len(s), BlockOf(s[h].cidr).base = s[h].cidr.addr
  PROVE  /\ CandidateAt(i, s, h).addr \in Nat
         /\ CandidateAt(i, s, h).addr + BlockSize[s[h].cidr.mask]
              <= End(BlockOf(s[h].cidr))
<1> DEFINE c == CurrentAt(i, s, h)
           d == CandidateAt(i, s, h)
           m == MaskOf(Ordered[h])
<1>1. /\ h \in 1..Len(Ordered) /\ h <= Len(s) + 1 /\ m <= Width
      /\ s[h].cidr \in Cidr /\ s[h].cidr = ChosenAt(i, s, h) /\ s[h].cidr.mask = m
  BY ZoneFacts
<1>2. c \in Cidr /\ d \in Cidr /\ d.mask = m
  BY <1>1, ChosenFacts
<1>3. /\ s[h].cidr.addr \in Nat /\ d.addr \in Nat /\ BlockSize[m] \in Nat \ {0}
      /\ End(BlockOf(s[h].cidr)) = s[h].cidr.addr + BlockSize[m]
  <2>1. m \in Masks
    BY <1>2, BlockFacts
  <2> HIDE DEF d, m
  <2> QED BY <1>1, <1>2, <2>1, BlockFacts, SizeFacts
<1>4. d.addr <= s[h].cidr.addr
  <2>1. CASE IsOverlapping(c, d)
    <3>1. s[h].cidr = NextBlockAfter(c, m)
      BY <1>1, <2>1 DEF ChosenAt
    <3> HIDE DEF c, d, m
    <3>2. d.addr < NextBlockAfter(c, d.mask).addr
      BY <1>2, <2>1, MovedIsBeyond
    <3> QED BY <1>2, <1>3, <3>1, <3>2
  <2>2. CASE ~IsOverlapping(c, d)
    <3>1. s[h].cidr = d
      BY <1>1, <2>2 DEF ChosenAt
    <3> QED BY <1>3, <3>1
  <2> QED BY <2>1, <2>2
<1> HIDE DEF c, d, m
<1> QED BY <1>1, <1>3, <1>4 DEF d

-----------------------------------------------------------------------------
(* The allocator leaves a gap in front of a subnet only if the one before  *)
(* the gap is not larger: a smaller subnet is put right behind.            *)
LEMMA SmallerFollowsClose ==
  ASSUME Placing, NEW i \in Nat \ {0}, NEW s \in Seq(SubnetOut), ZoneOK(i, s),
         NEW h \in 2..Len(s),
         BlockOf(s[h - 1].cidr).base = s[h - 1].cidr.addr,
         BlockOf(s[h].cidr).base = s[h].cidr.addr,
         End(BlockOf(s[h - 1].cidr)) <= s[h].cidr.addr,
         BlockSize[s[h].cidr.mask] < BlockSize[s[h - 1].cidr.mask]
  PROVE  s[h].cidr.addr = End(BlockOf(s[h - 1].cidr))
<1> DEFINE c == s[h - 1].cidr
           d == s[h].cidr
           e == CandidateAt(i, s, h)
           m == MaskOf(Ordered[h])
<1>1. /\ h - 1 \in 1..Len(s) /\ h \in 1..Len(s) /\ h # 1
      /\ Len(s) \in Nat /\ Len(s) <= Len(Ordered) /\ Len(Ordered) \in Nat
  BY OrderedFacts DEF ZoneOK, Placing
<1>2. /\ c \in Cidr /\ d \in Cidr /\ d = ChosenAt(i, s, h) /\ d.mask = m
      /\ c.mask = MaskOf(Ordered[h - 1]) /\ MaskOf(Ordered[h]) <= Width
      /\ MaskOf(Ordered[h - 1]) <= Width
  <2>1. /\ s[h].cidr \in Cidr /\ s[h].cidr = ChosenAt(i, s, h)
        /\ s[h].cidr.mask = MaskOf(Ordered[h]) /\ MaskOf(Ordered[h]) <= Width
    BY <1>1, ZoneFacts
  <2>2. PICK g : g = h - 1
    OBVIOUS
  <2>3. g \in 1..Len(s)
    BY <1>1, <2>2
  <2>4. /\ s[g].cidr \in Cidr
        /\ s[g].cidr.mask = MaskOf(Ordered[g]) /\ MaskOf(Ordered[g]) <= Width
    BY <2>3, ZoneFacts
  <2> QED BY <2>1, <2>2, <2>4
<1>3. CurrentAt(i, s, h) = c
  BY <1>1 DEF CurrentAt
<1>4. /\ c.addr \in Nat /\ d.addr \in Nat /\ End(BlockOf(c)) \in Nat
      /\ c.mask \in Masks /\ d.mask \in Masks
      /\ BlockSize[c.mask] \in Nat \ {0} /\ BlockSize[d.mask] \in Nat \ {0}
      /\ End(BlockOf(c)) = c.addr + BlockSize[c.mask]
  <2> HIDE DEF d, m
  <2> QED BY <1>2, BlockFacts, SizeFacts
<1>5. CASE IsOverlapping(c, e)
  <2>1. d = NextBlockAfter(c, m)
    BY <1>2, <1>3, <1>5 DEF ChosenAt
  <2> HIDE DEF c, d, m
  <2>2. NextBlockAfter(c, d.mask).addr = End(BlockOf(c))
    BY <1>2, <1>4, MovedIsAdjacent DEF c, d
  <2> QED BY <1>2, <2>1, <2>2 DEF c, d
<1>6. CASE ~IsOverlapping(c, e)
  <2>1. d = e
    BY <1>2, <1>3, <1>6 DEF ChosenAt
  <2>2. /\ h \in 1..Len(Ordered) /\ h <= Len(s) + 1
        /\ h - 1 \in 1..Len(Ordered) /\ h - 1 <= Len(s) + 1
        /\ h \in 2..Len(Ordered)
    BY <1>1
  <2>3. /\ e.addr = SplitAt(i, s, h) + BlockSize[d.mask] * CountAt(h)
        /\ CandidateAt(i, s, h - 1).addr
             = SplitAt(i, s, h - 1) + BlockSize[c.mask] * CountAt(h - 1)
    <3>1. /\ e.addr = SplitAt(i, s, h) + BlockSize[m] * CountAt(h)
          /\ CandidateAt(i, s, h - 1).addr
             = SplitAt(i, s, h - 1) + BlockSize[MaskOf(Ordered[h - 1])] * CountAt(h - 1)
      BY <1>2, <2>2, ChosenFacts
    <3> QED BY <1>2, <3>1
  <2>4. FilteredByType
    BY DEF Placing
  <2>5. SplitAt(i, s, h) \in Nat /\ CountAt(h) \in Nat /\ CountAt(h - 1) \in Nat
    BY <2>2, <2>4, SplitFacts, CountFacts
  <2>6. CASE PrecedingAt(h) = PrecedingAt(h - 1) /\ CountAt(h) = CountAt(h - 1) + 1
    <3>1. SplitAt(i, s, h) = SplitAt(i, s, h - 1)
      BY <2>6 DEF SplitAt
    <3>2. CandidateAt(i, s, h - 1).addr + BlockSize[c.mask] <= End(BlockOf(c))
      BY <1>1, EndsBeyondCandidate
    <3>3. d.addr = e.addr
      BY <2>1
    <3>4. BlockSize[d.mask] < BlockSize[c.mask] /\ End(BlockOf(c)) <= d.addr
      OBVIOUS
    <3> DEFINE p == SplitAt(i, s, h)
               n == CountAt(h - 1)
               x == BlockSize[c.mask]
               y == BlockSize[d.mask]
               z == End(BlockOf(c))
    <3>5. /\ p \in Nat /\ n \in Nat /\ x \in Nat \ {0} /\ y \in Nat \ {0} /\ z \in Nat
          /\ y < x /\ z <= p + y * (n + 1) /\ p + x * n + x <= z
      <4>1. CandidateAt(i, s, h - 1).addr = p + x * n
        BY <2>3, <3>1
      <4>2. e.addr = p + y * (n + 1)
        BY <2>3, <2>6
      <4> QED BY <1>4, <2>5, <3>2, <3>3, <3>4, <4>1, <4>2
    <3> HIDE DEF p, n, x, y, z
    <3>6. x * (n + 1) = x * n + x /\ y * (n + 1) < x * (n + 1)
          /\ x * n \in Nat /\ y * (n + 1) \in Nat
      BY <3>5
    <3> QED BY <3>5, <3>6, SMTT(30)
  <2>7. CASE /\ PrecedingAt(h) # {} /\ LastOf(PrecedingAt(h)) = h - 1
             /\ CountAt(h) = 0
    <3>1. SplitAt(i, s, h) = After(s[h - 1])
      BY <2>7 DEF SplitAt
    <3>2. After(s[h - 1]) = c.addr + BlockSize[c.mask]
      BY DEF After
    <3>3. BlockSize[d.mask] * 0 = 0
      BY <1>4
    <3>4. e.addr = After(s[h - 1]) + 0
      BY <2>3, <2>7, <3>1, <3>3
    <3> QED BY <1>4, <2>1, <3>2, <3>4
  <2> QED BY <2>2, <2>4, <2>6, <2>7, SameOrNewType
<1> QED BY <1>5, <1>6

(* So the subnet behind a gap starts at a multiple of the size of the one  *)
(* in front of it.                                                         *)
LEMMA GapFacts ==
  ASSUME Placing, NEW i \in Nat \ {0}, NEW s \in Seq(SubnetOut), ZoneOK(i, s),
         NEW h \in 2..Len(s),
         BlockOf(s[h - 1].cidr).base = s[h - 1].cidr.addr,
         BlockOf(s[h].cidr).base = s[h].cidr.addr,
         s[h - 1].cidr.addr < s[h].cidr.addr
  PROVE  /\ End(BlockOf(s[h - 1].cidr)) <= BlockOf(s[h].cidr).base
         /\ BlockOf(s[h].cidr).base % BlockSize[s[h - 1].cidr.mask] = 0
<1> DEFINE c == s[h - 1].cidr
           d == s[h].cidr
<1>1. h - 1 \in 1..Len(s) /\ h \in 1..Len(s) /\ h > 1
  OBVIOUS
<1>2. c \in Cidr /\ d \in Cidr /\ ~IsOverlapping(c, d)
  BY <1>1, ZoneFacts
<1>3. /\ c.addr \in Nat /\ d.addr \in Nat
      /\ c.mask \in Masks /\ d.mask \in Masks
      /\ BlockSize[c.mask] \in Nat \ {0} /\ BlockSize[d.mask] \in Nat \ {0}
      /\ End(BlockOf(c)) = c.addr + BlockSize[c.mask]
      /\ End(BlockOf(d)) = d.addr + BlockSize[d.mask]
      /\ BlockOf(d).base % BlockSize[d.mask] = 0
  <2> HIDE DEF c, d
  <2> QED BY <1>2, BlockFacts, SizeFacts DEF c, d
<1>4. End(BlockOf(c)) <= d.addr
  <2>1. End(BlockOf(c)) <= d.addr \/ End(BlockOf(d)) <= c.addr
    BY <1>2 DEF IsOverlapping, Disjoint
  <2>2. c.addr < d.addr
    OBVIOUS
  <2> HIDE DEF c, d
  <2> QED BY <1>3, <2>1, <2>2
<1>5. CASE BlockSize[d.mask] < BlockSize[c.mask]
  <2>1. d.addr = End(BlockOf(c))
    BY <1>4, <1>5, SmallerFollowsClose
  <2> HIDE DEF c
  <2>2. c \in Cidr /\ c.mask \in Masks /\ BlockSize[c.mask] <= BlockSize[c.mask]
    BY <1>2, <1>3
  <2>3. End(BlockOf(c)) % BlockSize[c.mask] = 0
    BY <2>2, EndIsMultiple
  <2> QED BY <1>4, <2>1, <2>3 DEF c
<1>6. CASE BlockSize[c.mask] <= BlockSize[d.mask]
  <2>1. BlockSize[d.mask] % BlockSize[c.mask] = 0
    BY <1>3, <1>6, SizesDivide
  <2>2. d.addr % BlockSize[d.mask] = 0
    BY <1>3
  <2> HIDE DEF c, d
  <2>3. d.addr % BlockSize[c.mask] = 0
    BY <1>3, <2>1, <2>2, MultipleOfMultiple
  <2> QED BY <1>4, <2>3 DEF c, d
<1> QED BY <1>3, <1>5, <1>6

-----------------------------------------------------------------------------
LEMMA LeastFacts ==
  ASSUME NEW S \in SUBSET Nat, S # {}
  PROVE  \E n \in S : \A k \in S : n <= k
<1> DEFINE R == OpToRel(<, Nat)
<1>1. IsWellFoundedOn(R, Nat)
  BY NatLessThanWellFounded
<1>2. \A x, y \in Nat : <<x, y>> \in R <=> x < y
  BY DEF OpToRel
<1> HIDE DEF R
<1>3. PICK n \in S : \A k \in S : ~(<<k, n>> \in R)
  BY <1>1, WFMin
<1>4. ASSUME NEW k \in S PROVE n <= k
  <2>1. k \in Nat /\ n \in Nat /\ ~(k < n)
    BY <1>2, <1>3
  <2> QED BY <2>1
<1> QED BY <1>4

(* A block of a mask that holds an address.                                *)
LEMMA NetmaskFacts ==
  ASSUME NEW e \in Nat, NEW w \in Masks
  PROVE  /\ Netmask(e, w) = [base |-> Netmask(e, w).base, mask |-> w]
         /\ Netmask(e, w).mask = w
         /\ Netmask(e, w).base \in Nat /\ Netmask(e, w).base % BlockSize[w] = 0
         /\ Netmask(e, w).base <= e /\ e < Netmask(e, w).base + BlockSize[w]
         /\ e % BlockSize[w] = 0 => Netmask(e, w).base = e
<1> DEFINE c == [addr |-> e, mask |-> w]
<1>1. c \in Cidr /\ c.addr = e /\ c.mask = w /\ BlockOf(c) = Netmask(e, w)
  BY DEF Cidr, BlockOf
<1>2. Netmask(e, w).base = e - (e % BlockSize[w]) /\ Netmask(e, w).mask = w
  BY DEF Netmask
<1>3. e % BlockSize[w] = 0 => Netmask(e, w).base = e
  BY <1>2
<1> HIDE DEF c
<1> QED BY <1>1, <1>2, <1>3, BlockFacts

(* The block that follows, short of the end of the address space.          *)
LEMMA FollowingFacts ==
  ASSUME NEW e \in Nat, NEW w \in Masks, e % BlockSize[w] = 0,
         e + BlockSize[w] < Space, NEW b, b = [base |-> e, mask |-> w]
  PROVE  /\ End(b) = e + BlockSize[w]
         /\ NextBlock(b) = [base |-> e + BlockSize[w], mask |-> w]
         /\ (e + BlockSize[w]) % BlockSize[w] = 0
         /\ LastHost(b) \in Nat /\ e <= LastHost(b) /\ LastHost(b) < e + BlockSize[w]
<1> DEFINE z == BlockSize[w]
           n == e + z
<1>1. z \in Nat \ {0} /\ n \in Nat /\ w \in Nat /\ w <= Width /\ Width \in Nat
  BY SizeFacts, WidthFacts DEF Masks
<1>2. End(b) = n
  BY DEF End, Size
<1>3. Space \in Nat \ {0} /\ n < Space
  BY WidthAssumption, BlockSizeAssumption DEF Space
<1>4. n % z = 0
  <2>1. z % z = 0
    BY <1>1
  <2> HIDE DEF z
  <2> QED BY <1>1, <2>1, RemainderOfSum DEF z
<1>5. n % Space = n
  <2> HIDE DEF n
  <2> QED BY <1>1, <1>3
<1>6. NextBlock(b) = Netmask(n, w)
  BY <1>2, <1>5 DEF NextBlock
<1>7. NextBlock(b) = [base |-> n, mask |-> w]
  <2> HIDE DEF n
  <2>1. Netmask(n, w) = [base |-> n, mask |-> w]
    BY <1>1, <1>4, NetmaskFacts
  <2> QED BY <1>6, <2>1
<1>8. w <= Width - 2 => z >= 2
  <2> SUFFICES ASSUME w <= Width - 2 PROVE z >= 2
    OBVIOUS
  <2>1. w \in 0..(Width - 1) /\ w + 1 \in 0..Width
    BY <1>1
  <2>2. z = 2 * BlockSize[w + 1] /\ BlockSize[w + 1] \in Nat \ {0}
    BY <2>1, BlockSizeAssumption
  <2> QED BY <2>2
<1>9. LastHost(b) = n - (IF w <= Width - 2 THEN 2 ELSE 1)
  BY <1>2 DEF LastHost
<1>10. LastHost(b) \in Nat /\ e <= LastHost(b) /\ LastHost(b) < n
  <2> HIDE DEF z
  <2> QED BY <1>1, <1>8, <1>9
<1> QED BY <1>2, <1>4, <1>7, <1>10

-----------------------------------------------------------------------------
(* The inner loop ends.                                                    *)
LEMMA WidestIsReached ==
  ASSUME NEW e \in Nat, NEW m \in Masks, NEW b, b = [base |-> e, mask |-> m],
         NEW lastBefore, NEW firstAfter
  PROVE  \E w \in 1..m :
           /\ Widest(b, lastBefore, firstAfter) = Netmask(e, w)
           /\ ~CanWiden(Netmask(e, w), lastBefore, firstAfter)
           /\ \A k \in (w + 1)..m : CanWiden(Netmask(e, k), lastBefore, firstAfter)
<1> DEFINE can(k) == CanWiden(Netmask(e, k), lastBefore, firstAfter)
           passed(w) == \A k \in (w + 1)..m : can(k)
<1>1. m \in Nat \ {0}
  BY WidthFacts DEF Masks
<1>2. ~can(1)
  <2>1. Netmask(e, 1).mask = 1
    BY DEF Netmask
  <2> QED BY <2>1 DEF CanWiden
<1>3. Widest(b, lastBefore, firstAfter)
        = Netmask(e, CHOOSE w \in 1..m : ~can(w) /\ passed(w))
  BY DEF Widest
<1> HIDE DEF can
<1>4. \E w \in 1..m : ~can(w) /\ passed(w)
  <2> DEFINE S == {w \in 1..m : passed(w)}
  <2>1. S \in SUBSET Nat /\ S # {}
    <3>1. passed(m)
      BY <1>1
    <3>2. m \in S
      BY <1>1, <3>1
    <3> QED BY <1>1, <3>2
  <2>2. PICK w \in S : \A k \in S : w <= k
    BY <2>1, LeastFacts
  <2>3. w \in 1..m /\ passed(w) /\ w \in Nat
    BY <1>1, <2>2
  <2>4. ~can(w)
    <3> SUFFICES ASSUME can(w) PROVE FALSE
      OBVIOUS
    <3>1. w # 1
      BY <1>2
    <3>2. w - 1 \in 1..m
      BY <1>1, <2>3, <3>1
    <3>3. passed(w - 1)
      <4> SUFFICES ASSUME NEW k \in ((w - 1) + 1)..m PROVE can(k)
        OBVIOUS
      <4>1. k = w \/ k \in (w + 1)..m
        BY <1>1, <2>3
      <4> QED BY <2>3, <4>1
    <3>4. w - 1 \in S
      BY <3>2, <3>3
    <3> HIDE DEF S
    <3>5. w <= w - 1
      BY <2>2, <3>4
    <3> QED BY <2>3, <3>5
  <2> QED BY <2>3, <2>4
<1> DEFINE W == CHOOSE w \in 1..m : ~can(w) /\ passed(w)
<1>5. W \in 1..m /\ ~can(W) /\ passed(W)
  <2> HIDE DEF passed
  <2> QED BY <1>4
<1> HIDE DEF W
<1>6. Widest(b, lastBefore, firstAfter) = Netmask(e, W)
  BY <1>3 DEF W
<1> QED BY <1>5, <1>6 DEF can

-----------------------------------------------------------------------------
LEMMA ContainsFacts ==
  ASSUME NEW e \in Nat, NEW w \in Masks, NEW addr \in Int
  PROVE  ContainsAddress(Netmask(e, w), addr)
           <=> Netmask(e, w).base <= addr /\ addr < Netmask(e, w).base + BlockSize[w]
<1>1. Netmask(e, w).mask = w
  BY NetmaskFacts
<1> QED BY <1>1 DEF ContainsAddress, End, Size

(* The block of one mask that holds an address, by its base.               *)
LEMMA OnlyBlock ==
  ASSUME NEW s \in Nat \ {0}, NEW x \in Nat, NEW y \in Nat, NEW a \in Nat,
         x % s = 0, y % s = 0, x <= a, a < x + s, y <= a, a < y + s
  PROVE  x = y
<1>1. ~(x < y)
  <2> SUFFICES ASSUME x < y PROVE FALSE
    OBVIOUS
  <2>1. x + s <= y
    BY MultiplesApart
  <2> QED BY <2>1
<1>2. ~(y < x)
  <2> SUFFICES ASSUME y < x PROVE FALSE
    OBVIOUS
  <2>1. y + s <= x
    BY MultiplesApart
  <2> QED BY <2>1
<1> QED BY <1>1, <1>2

LEMMA WiderFacts ==
  ASSUME NEW e \in Nat, NEW k \in Masks, k > 1
  PROVE  /\ k - 1 \in Masks /\ BlockSize[k - 1] = 2 * BlockSize[k]
         /\ BlockSize[k - 1] % BlockSize[k] = 0
         /\ OneWider(Netmask(e, k)) = Netmask(e, k - 1)
<1>1. k \in Nat /\ k <= Width /\ Width \in Nat
  BY WidthFacts DEF Masks
<1>2. k - 1 \in Masks /\ k - 1 \in 0..(Width - 1) /\ k - 1 \in 0..Width /\ k \in 0..Width
  BY <1>1 DEF Masks
<1>3. BlockSize[k - 1] = 2 * BlockSize[k]
  <2>1. BlockSize[k - 1] = 2 * BlockSize[(k - 1) + 1]
    BY <1>2, BlockSizeAssumption
  <2>2. (k - 1) + 1 = k
    BY <1>1
  <2> QED BY <2>1, <2>2
<1>4. BlockSize[k - 1] % BlockSize[k] = 0
  BY <1>1, <1>2, BlockSizeAssumption
<1> DEFINE z == BlockSize[k]
           y == BlockSize[k - 1]
           q == Netmask(e, k).base
           b == Netmask(q, k - 1).base
           c == Netmask(e, k - 1).base
<1>5. z \in Nat \ {0} /\ y \in Nat \ {0}
  BY <1>2, SizeFacts
<1>6. q \in Nat /\ q % z = 0 /\ q <= e /\ e < q + z /\ Netmask(e, k).mask = k
  BY NetmaskFacts
<1>7. /\ b \in Nat /\ b % y = 0 /\ b <= q /\ q < b + y
      /\ Netmask(q, k - 1) = [base |-> b, mask |-> k - 1]
  BY <1>2, <1>6, NetmaskFacts
<1>8. /\ c \in Nat /\ c % y = 0 /\ c <= e /\ e < c + y
      /\ Netmask(e, k - 1) = [base |-> c, mask |-> k - 1]
  BY <1>2, NetmaskFacts
<1>9. OneWider(Netmask(e, k)) = Netmask(q, k - 1)
  BY <1>6 DEF OneWider
<1> HIDE DEF z, y, q, b, c
<1>10. b % z = 0 /\ y % z = 0
  <2>1. y % z = 0
    BY <1>4 DEF y, z
  <2> QED BY <1>5, <1>7, <2>1, MultipleOfMultiple
<1>11. (b + y) % z = 0 /\ b + y \in Nat
  <2>1. y \in Nat /\ b \in Nat /\ z \in Nat \ {0} /\ y % z = 0
    BY <1>5, <1>7, <1>10
  <2>2. (b + y) % z = b % z
    BY <2>1, RemainderOfSum
  <2> QED BY <1>10, <2>1, <2>2
<1>12. q + z <= b + y
  BY <1>5, <1>6, <1>7, <1>11, MultiplesApart
<1>13. b <= e /\ e < b + y
  BY <1>5, <1>6, <1>7, <1>12
<1>14. b = c
  BY <1>5, <1>7, <1>8, <1>13, OnlyBlock
<1>15. OneWider(Netmask(e, k)) = Netmask(e, k - 1)
  BY <1>7, <1>8, <1>9, <1>14
<1> QED BY <1>2, <1>3, <1>4, <1>15

(* The block which the inner loop of findSubnetGap comes to: it starts     *)
(* where the gap does, ends no later, its size divides where the gap ends, *)
(* and its double, if it starts there too, would hold the host behind.     *)
LEMMA GapBlock ==
  ASSUME NEW e \in Nat, NEW m \in Masks, e % BlockSize[m] = 0,
         NEW lb \in Int, lb < e, e <= lb + BlockSize[m],
         NEW u \in Nat, e < u, u % BlockSize[m] = 0,
         NEW t \in Masks, u % BlockSize[t] = 0, u - e <= BlockSize[t],
         NEW fh \in {u, u + 1}, fh = u + 1 => u % BlockSize[Width - 1] = 0
  PROVE  \E w \in 1..m :
           /\ Widest([base |-> e, mask |-> m], lb, fh) = [base |-> e, mask |-> w]
           /\ e % BlockSize[w] = 0 /\ u % BlockSize[w] = 0
           /\ e + BlockSize[w] <= u
           /\ w > 1 /\ e % BlockSize[w - 1] = 0 => fh < e + BlockSize[w - 1]
<1> DEFINE b == [base |-> e, mask |-> m]
<1>1. PICK w \in 1..m : /\ Widest(b, lb, fh) = Netmask(e, w)
                        /\ ~CanWiden(Netmask(e, w), lb, fh)
                        /\ \A k \in (w + 1)..m : CanWiden(Netmask(e, k), lb, fh)
  BY WidestIsReached
<1>2. /\ w \in Masks /\ w \in Nat /\ m \in Nat /\ Width \in Nat /\ m <= Width
      /\ 1 <= w /\ w <= m
  BY WidthFacts DEF Masks
<1> DEFINE z == BlockSize[w]
           s == BlockSize[m]
           r == BlockSize[t]
<1>3. z \in Nat \ {0} /\ s \in Nat \ {0} /\ r \in Nat \ {0}
  BY <1>2, SizeFacts
<1>4. e % z = 0 /\ u % z = 0 /\ e + z <= u
  <2>1. CASE w = m
    <3>1. e % z = 0 /\ u % z = 0
      BY <2>1
    <3> HIDE DEF z
    <3> QED BY <1>3, <3>1, MultiplesApart
  <2>2. CASE w < m
    <3>1. w + 1 \in Masks /\ w + 1 > 1 /\ w + 1 \in (w + 1)..m /\ (w + 1) - 1 = w
      BY <1>2, <2>2 DEF Masks
    <3>2. OneWider(Netmask(e, w + 1)) = Netmask(e, w) /\ z = 2 * BlockSize[w + 1]
      BY <3>1, WiderFacts
    <3>3. ~ContainsAddress(Netmask(e, w), lb) /\ ~ContainsAddress(Netmask(e, w), fh)
      BY <1>1, <3>1, <3>2 DEF CanWiden
    <3> DEFINE q == Netmask(e, w).base
    <3>4. q \in Nat /\ q % z = 0 /\ q <= e /\ e < q + z
      BY <1>2, NetmaskFacts
    <3>5. ~(q <= lb /\ lb < q + z) /\ ~(q <= fh /\ fh < q + z)
      BY <1>2, <3>3, ContainsFacts
    <3>6. z % s = 0
      <4>1. w \in 0..Width /\ m \in 0..Width
        BY <1>2
      <4> QED BY <1>2, <4>1, BlockSizeAssumption
    <3>7. z % BlockSize[Width - 1] = 0 /\ BlockSize[Width - 1] = 2 * BlockSize[Width]
          /\ BlockSize[Width - 1] = 2
      <4>1. Width - 1 \in Masks /\ Width - 1 \in 0..(Width - 1) /\ w <= Width - 1
            /\ w \in 0..Width /\ Width - 1 \in 0..Width
        BY <1>2, <2>2, WidthAssumption DEF Masks
      <4>2. BlockSize[Width - 1] = 2 * BlockSize[(Width - 1) + 1] /\ (Width - 1) + 1 = Width
        BY <1>2, <4>1, BlockSizeAssumption
      <4> QED BY <4>1, <4>2, BlockSizeAssumption
    <3> HIDE DEF z, s, r, q
    <3>8. q = e
      <4> SUFFICES ASSUME q < e PROVE FALSE
        BY <3>4
      <4>1. q % s = 0
        BY <1>3, <3>4, <3>6, MultipleOfMultiple
      <4>2. e % s = 0 /\ e <= lb + s
        BY DEF s
      <4>3. q + s <= e
        BY <1>3, <3>4, <4>1, <4>2, MultiplesApart
      <4> QED BY <1>3, <3>4, <3>5, <4>2, <4>3
    <3>9. e % z = 0
      BY <3>4, <3>8
    <3>10. e + z <= fh
      BY <1>3, <3>4, <3>5, <3>8
    <3>11. e + z <= u
      <4>1. CASE fh = u
        BY <3>10, <4>1
      <4>2. CASE fh = u + 1
        <5> SUFFICES ASSUME u < e + z PROVE FALSE
          BY <1>3
        <5>1. u % 2 = 0
          BY <3>7, <4>2
        <5>2. e % 2 = 0 /\ z % 2 = 0
          BY <1>3, <3>7, <3>9, MultipleOfMultiple
        <5>3. (e + z) % 2 = 0 /\ e + z \in Nat
          <6>1. z \in Nat /\ 2 \in Nat \ {0}
            BY <1>3
          <6>2. (e + z) % 2 = e % 2
            BY <5>2, <6>1, RemainderOfSum
          <6> QED BY <5>2, <6>1, <6>2
        <5>4. u + 2 <= e + z
          BY <5>1, <5>3, MultiplesApart
        <5> QED BY <1>3, <3>10, <4>2, <5>4
      <4> QED BY <4>1, <4>2
    <3>12. u % z = 0
      <4>1. z <= r /\ u % r = 0
        BY <1>3, <3>11 DEF r
      <4>2. r % z = 0
        BY <1>2, <4>1, SizesDivide DEF r, z
      <4> QED BY <1>3, <4>1, <4>2, MultipleOfMultiple
    <3> QED BY <3>9, <3>11, <3>12
  <2> QED BY <1>2, <2>1, <2>2
<1>5. Netmask(e, w) = [base |-> e, mask |-> w]
  BY <1>2, <1>4, NetmaskFacts, SMTT(30)
<1>6. ASSUME w > 1, e % BlockSize[w - 1] = 0
      PROVE  fh < e + BlockSize[w - 1]
  <2>1. w - 1 \in Masks /\ OneWider(Netmask(e, w)) = Netmask(e, w - 1)
    BY <1>2, <1>6, WiderFacts
  <2>2. Netmask(e, w).mask > 1
    BY <1>5, <1>6
  <2>3. \/ ContainsAddress(Netmask(e, w - 1), lb)
        \/ ContainsAddress(Netmask(e, w - 1), fh)
    BY <1>1, <2>1, <2>2 DEF CanWiden
  <2>4. Netmask(e, w - 1).base = e
    BY <1>6, <2>1, NetmaskFacts
  <2> QED BY <2>1, <2>3, <2>4, ContainsFacts
<1> QED BY <1>1, <1>4, <1>5, <1>6

-----------------------------------------------------------------------------
(* The zone which is converted is the first one, and the others are as     *)
(* long.                                                                   *)
FirstZone == [h \in 1..Len(Ordered) |-> out[h]]

FirstInv ==
  request.specs # Undefined /\ Done > 0 =>
    /\ Placing
    /\ ZoneOK(1, FirstZone)
    /\ Len(out) = Done * Len(Ordered)

LEMMA FirstFrame ==
  ASSUME FirstInv, request' = request, subnetsIn' = subnetsIn, out' = out, Done' = Done
  PROVE  FirstInv'
<1>1. Ordered' = Ordered /\ Placing' = Placing
  BY SpecsFrame
<1>2. FirstZone' = FirstZone
  BY <1>1 DEF FirstZone
<1>3. ZoneOK(1, FirstZone)' = ZoneOK(1, FirstZone)
  BY <1>2, SpecsFrame, CallFrame DEF ZoneOK
<1> QED BY <1>1, <1>2, <1>3 DEF FirstInv

LEMMA FirstZonePlaced ==
  ASSUME IInv, FirstInv, NextZone
  PROVE  FirstInv'
<1>1. PICK n \in Nat : n = Len(Ordered)
  BY NextListFacts
<1>2. PICK l \in Nat : l = Len(out)
  BY NextListFacts
<1>3. /\ request' = request /\ subnetsIn' = subnetsIn
      /\ Placing /\ OutInv /\ ZoneOK(zone, here) /\ request.specs # Undefined
      /\ zone \in Nat \ {0} /\ Done = zone - 1 /\ Done' = zone
  BY NextListFacts
<1>4. Ordered' = Ordered /\ Placing' = Placing /\ Len(Ordered') = n
  BY <1>1, <1>3, SpecsFrame
<1>5. FirstZone' = [h \in 1..n |-> out'[h]]
  BY <1>4 DEF FirstZone
<1>6. /\ Len(out') = l + n
      /\ \A p \in 1..l : out'[p] = out[p]
      /\ \A h \in 1..n : out'[l + h] = here[h]
      /\ here \in Seq(SubnetOut) /\ DOMAIN here = 1..n
  BY <1>1, <1>2, NextListFacts
<1>7. CASE zone = 1
  <2>1. l = 0
    <3>1. Done = 0
      BY <1>3, <1>7
    <3>2. out = <<>>
      BY <1>3, <3>1 DEF OutInv
    <3> QED BY <1>2, <3>2
  <2>2. \A h \in 1..n : out'[h] = here[h]
    BY <1>6, <2>1
  <2>3. FirstZone' = here
    <3>1. here = [h \in 1..n |-> here[h]]
      BY <1>6
    <3> QED BY <1>5, <2>2, <3>1
  <2>4. ZoneOK(1, FirstZone)'
    BY <1>3, <1>7, <2>3, SpecsFrame, CallFrame DEF ZoneOK
  <2>5. Len(out') = zone * n
    BY <1>6, <1>7, <2>1
  <2> QED BY <1>3, <1>4, <2>4, <2>5 DEF FirstInv
<1>8. CASE zone # 1
  <2>1. Done > 0
    BY <1>3, <1>8
  <2>2. ZoneOK(1, FirstZone) /\ l = (zone - 1) * n /\ n <= l
    BY <1>1, <1>2, <1>3, <2>1 DEF FirstInv, OutInv
  <2>3. FirstZone' = FirstZone
    <3>1. FirstZone = [h \in 1..n |-> out[h]]
      BY <1>1 DEF FirstZone
    <3>2. \A h \in 1..n : out'[h] = out[h]
      BY <1>6, <2>2
    <3> QED BY <1>5, <3>1, <3>2
  <2>4. ZoneOK(1, FirstZone)'
    BY <1>3, <2>2, <2>3, SpecsFrame, CallFrame DEF ZoneOK
  <2>5. Len(out') = zone * n
    <3>1. PICK k \in Nat : k = zone - 1
      BY <1>3
    <3>2. (k + 1) * n = k * n + n /\ zone = k + 1
      BY <1>3, <3>1
    <3> QED BY <1>6, <2>2, <3>1, <3>2
  <2> QED BY <1>3, <1>4, <2>4, <2>5 DEF FirstInv
<1> QED BY <1>7, <1>8

LEMMA FirstStepInv ==
  ASSUME IInv, FirstInv, [Next]_vars
  PROVE  FirstInv'
<1>1. /\ TypeOK /\ zone \in Nat \ {0} /\ request \in Requests
      /\ request.specs # Undefined => StepInv
      /\ request.specs = Undefined => DefaultInv
  <2>1. TypeOK
    BY DEF IInv
  <2> QED BY <2>1, RequestFacts DEF IInv, TypeOK
<1>2. CASE NextZone
  BY <1>2, FirstZonePlaced
<1>3. CASE UNCHANGED vars
  <2>1. /\ request' = request /\ subnetsIn' = subnetsIn /\ out' = out
        /\ phase' = phase /\ zone' = zone
    BY <1>3 DEF vars
  <2>2. Done' = Done
    BY <2>1 DEF Done
  <2> QED BY <2>1, <2>2, FirstFrame
<1>4. CASE PlaceSubnet
  <2>1. /\ request' = request /\ subnetsIn' = subnetsIn /\ out' = out
        /\ phase' = phase /\ zone' = zone
    BY <1>4 DEF PlaceSubnet
  <2>2. Done' = Done
    BY <2>1 DEF Done
  <2> QED BY <2>1, <2>2, FirstFrame
<1>5. CASE Throw /\ phase # "returned"
  <2>1. /\ request' = request /\ subnetsIn' = subnetsIn /\ out' = out
        /\ phase' = "failed" /\ zone' = zone
    BY <1>5 DEF Throw
  <2>2. Done' = Done
    BY <1>5, <2>1 DEF Done
  <2> QED BY <2>1, <2>2, FirstFrame
<1>6. CASE ReturnDefaults
  BY <1>6 DEF ReturnDefaults, FirstInv
<1>7. CASE Split \/ FilterSpec \/ StartFirstZone
  <2>1. /\ phase \in {"called", "filtering"} /\ request' = request
        /\ phase' \in {"filtering", "placing"} /\ zone' = zone
    BY <1>7 DEF Split, FilterSpec, StartFirstZone
  <2>2. request.specs # Undefined => Done' = 0
    BY <1>1, <2>1 DEF StepInv, Done
  <2> QED BY <2>1, <2>2 DEF FirstInv
<1>8. CASE RefuseSplit \/ RefuseAddressZero \/ RefuseMask
  <2>1. Throw /\ phase # "returned"
    BY <1>8 DEF RefuseSplit, RefuseAddressZero, RefuseMask
  <2> QED BY <1>5, <2>1
<1> QED BY <1>2, <1>3, <1>4, <1>6, <1>7, <1>8 DEF Next

LEMMA FirstInitInv == Init => FirstInv
BY DEF Init, FirstInv, Done

-----------------------------------------------------------------------------
(* The layouts the conversion can follow: in the first zone the subnets    *)
(* lie in order, written as they lie, and each gap ends where a block does *)
(* that would take it.  Only the first has to lie in the address space.    *)
Tidy ==
  /\ request.specs # Undefined
  /\ LegacyAccepted
  /\ \A p \in 1..SingleAzLength : SubnetBlock(p).base = out[p].cidr.addr
  /\ \A p \in 1..(SingleAzLength - 1) : out[p].cidr.addr < out[p + 1].cidr.addr
  /\ GapsEndBlocks
  /\ SingleAzLength > 0 => SubnetBlock(1).base < Space

(* The list that is converted.                                             *)
LEMMA FirstZoneFacts ==
  ASSUME IInv, FirstInv, phase = "returned", request.specs # Undefined
  PROVE  /\ SingleAzLength \in Nat /\ SingleAzLength = Len(Ordered)
         /\ Placing /\ ZoneOK(1, FirstZone)
         /\ Len(out) \in Nat /\ DOMAIN out = 1..Len(out)
         /\ SingleAzLength <= Len(out)
         /\ Len(out) = request.azCount * SingleAzLength
         /\ FirstZone \in Seq(SubnetOut) /\ Len(FirstZone) = SingleAzLength
         /\ \A p \in 1..SingleAzLength :
              /\ FirstZone[p] = out[p] /\ p \in DOMAIN out
              /\ out[p] \in SubnetOut /\ out[p].az = 1
<1>1. /\ TypeOK /\ StepInv /\ OutInv /\ zone = request.azCount /\ Done = zone
      /\ zone \in Nat \ {0} /\ request \in Requests /\ out \in Seq(SubnetOut)
  <2>1. TypeOK /\ StepInv /\ OutInv
    BY DEF IInv
  <2>2. request \in Requests /\ zone = request.azCount /\ out \in Seq(SubnetOut)
    BY <2>1 DEF TypeOK, StepInv
  <2> QED BY <2>1, <2>2, RequestFacts DEF Done
<1>2. Placing /\ ZoneOK(1, FirstZone) /\ Len(out) = zone * Len(Ordered)
  BY <1>1 DEF FirstInv
<1>3. PICK n \in Nat : n = Len(Ordered)
  BY <1>2, OrderedFacts DEF Placing
<1>4. SingleAzLength = n
  <2>1. (zone * n) \div zone = n
    BY <1>1, <1>3
  <2> QED BY <1>1, <1>2, <1>3, <2>1 DEF SingleAzLength
<1>5. n <= Len(out) /\ DOMAIN out = 1..Len(out) /\ Len(out) \in Nat
  BY <1>1, <1>3 DEF OutInv
<1>6. \A p \in 1..n : out[p].az = 1 /\ p \in DOMAIN out /\ out[p] \in SubnetOut
  <2>1. OrderOfZones
    BY <1>1 DEF OutInv
  <2> QED BY <1>1, <1>3, <1>5, <2>1 DEF OrderOfZones
<1>7. /\ FirstZone \in Seq(SubnetOut) /\ Len(FirstZone) = n
      /\ \A p \in 1..n : FirstZone[p] = out[p]
  <2>1. FirstZone = [h \in 1..n |-> out[h]]
    BY <1>3 DEF FirstZone
  <2> HIDE DEF FirstZone
  <2> QED BY <1>6, <2>1
<1> QED BY <1>1, <1>2, <1>3, <1>4, <1>5, <1>6, <1>7

(* A block that starts in the address space ends there.                    *)
LEMMA EndsInSpace ==
  ASSUME NEW x \in Nat, NEW m \in Masks, x % BlockSize[m] = 0, x < Space
  PROVE  x + BlockSize[m] <= Space
<1>1. /\ m \in 0..Width /\ BlockSize[m] \in Nat \ {0} /\ 0 \in 0..Width
      /\ Space \in Nat
  BY SizeFacts, WidthAssumption, BlockSizeAssumption DEF Space
<1>2. Space % BlockSize[m] = 0
  BY <1>1, BlockSizeAssumption DEF Space
<1> QED BY <1>1, <1>2, MultiplesApart

(* The first zone of such a layout: one subnet behind the other, and each  *)
(* where a block of the size of the one before it starts.                  *)
LEMMA TidyFacts ==
  ASSUME IInv, FirstInv, Tidy
  PROVE  /\ SingleAzLength \in Nat
         /\ SingleAzLength <= Len(out)
         /\ \A p \in 1..SingleAzLength :
              /\ out[p].cidr \in Cidr /\ out[p].cidr.mask \in Masks
              /\ out[p].type \in PlacedTypes
              /\ SubnetBlock(p).base \in Nat
              /\ SubnetBlock(p).base % BlockSize[out[p].cidr.mask] = 0
              /\ SubnetBlock(p) = [base |-> SubnetBlock(p).base,
                                   mask |-> out[p].cidr.mask]
              /\ End(SubnetBlock(p)) = SubnetBlock(p).base + BlockSize[out[p].cidr.mask]
              /\ SubnetBlock(p).base < Space => End(SubnetBlock(p)) <= Space
              /\ p < SingleAzLength =>
                   /\ End(SubnetBlock(p)) <= SubnetBlock(p + 1).base
                   /\ SubnetBlock(p + 1).base % BlockSize[out[p].cidr.mask] = 0
<1>1. PICK n \in Nat : n = SingleAzLength
  BY FirstZoneFacts DEF Tidy, LegacyAccepted
<1>2. /\ Placing /\ ZoneOK(1, FirstZone) /\ n <= Len(out)
      /\ FirstZone \in Seq(SubnetOut) /\ Len(FirstZone) = n
      /\ \A p \in 1..n : FirstZone[p] = out[p] /\ out[p] \in SubnetOut
  BY <1>1, FirstZoneFacts DEF Tidy, LegacyAccepted
<1>3. /\ \A p \in 1..n : SubnetBlock(p).base = out[p].cidr.addr
      /\ \A p \in 1..(n - 1) : out[p].cidr.addr < out[p + 1].cidr.addr
  BY <1>1 DEF Tidy
<1>4. ASSUME NEW p \in 1..n
      PROVE  /\ out[p].cidr \in Cidr /\ out[p].cidr.mask \in Masks
             /\ out[p].type \in PlacedTypes
             /\ SubnetBlock(p).base \in Nat
             /\ SubnetBlock(p).base % BlockSize[out[p].cidr.mask] = 0
             /\ SubnetBlock(p) = [base |-> SubnetBlock(p).base,
                                  mask |-> out[p].cidr.mask]
             /\ End(SubnetBlock(p)) = SubnetBlock(p).base + BlockSize[out[p].cidr.mask]
             /\ SubnetBlock(p).base < Space => End(SubnetBlock(p)) <= Space
  <2>1. out[p].cidr \in Cidr /\ out[p].type \in PlacedTypes
    BY <1>2 DEF SubnetOut
  <2> QED BY <2>1, BlockFacts, EndsInSpace DEF SubnetBlock
<1>5. ASSUME NEW p \in 1..n, p < n
      PROVE  /\ End(SubnetBlock(p)) <= SubnetBlock(p + 1).base
             /\ SubnetBlock(p + 1).base % BlockSize[out[p].cidr.mask] = 0
  <2>1. /\ p + 1 \in 2..Len(FirstZone) /\ (p + 1) - 1 = p /\ p + 1 \in 1..n
        /\ p \in 1..(n - 1)
    BY <1>2, <1>5
  <2>2. FirstZone[p] = out[p] /\ FirstZone[p + 1] = out[p + 1]
    BY <1>2, <2>1
  <2>3. out[p].cidr.addr < out[p + 1].cidr.addr
    BY <1>3, <2>1
  <2>4. /\ BlockOf(out[p].cidr).base = out[p].cidr.addr
        /\ BlockOf(out[p + 1].cidr).base = out[p + 1].cidr.addr
    BY <1>3, <2>1 DEF SubnetBlock
  <2>5. 1 \in Nat \ {0}
    OBVIOUS
  <2> DEFINE h == p + 1
  <2>6. /\ h \in 2..Len(FirstZone) /\ FirstZone[h - 1] = out[p]
        /\ FirstZone[h] = out[h]
    BY <2>1, <2>2
  <2> HIDE DEF h
  <2>7. /\ End(BlockOf(FirstZone[h - 1].cidr)) <= BlockOf(FirstZone[h].cidr).base
        /\ BlockOf(FirstZone[h].cidr).base % BlockSize[FirstZone[h - 1].cidr.mask] = 0
    <3>1. /\ BlockOf(FirstZone[h - 1].cidr).base = FirstZone[h - 1].cidr.addr
          /\ BlockOf(FirstZone[h].cidr).base = FirstZone[h].cidr.addr
          /\ FirstZone[h - 1].cidr.addr < FirstZone[h].cidr.addr
      BY <2>3, <2>4, <2>6 DEF h
    <3> QED BY <1>2, <2>5, <2>6, <3>1, GapFacts
  <2> QED BY <2>6, <2>7 DEF SubnetBlock, h
<1> QED BY <1>1, <1>2, <1>4, <1>5

(* What GapsAreFilled is about is among them.                              *)
LEMMA RegularIsTidy ==
  ASSUME IInv, FirstInv, Regular, GapsEndBlocks, LegacyAccepted
  PROVE  /\ Tidy
         /\ \A p \in 1..SingleAzLength : SubnetBlock(p).base < Space
<1>1. /\ request.specs # Undefined /\ InOrderOfAddress /\ WrittenAligned
      /\ InAddressSpace /\ phase = "returned"
  BY DEF Regular, LegacyAccepted
<1>2. PICK n \in Nat : n = SingleAzLength
  BY <1>1, FirstZoneFacts
<1>3. \A p \in 1..n : p \in DOMAIN out /\ out[p].az = 1 /\ out[p] \in SubnetOut
  BY <1>1, <1>2, FirstZoneFacts
<1>4. \A p \in 1..n : SubnetBlock(p).base = out[p].cidr.addr
  BY <1>1, <1>3 DEF WrittenAligned, SubnetBlock
<1>5. ASSUME NEW p \in 1..(n - 1) PROVE out[p].cidr.addr < out[p + 1].cidr.addr
  <2>1. p \in 1..n /\ p + 1 \in 1..n /\ p < p + 1
    OBVIOUS
  <2> QED BY <1>1, <1>3, <2>1 DEF InOrderOfAddress
<1>6. ASSUME NEW p \in 1..n PROVE SubnetBlock(p).base < Space
  <2>1. out[p].cidr \in Cidr
    BY <1>3 DEF SubnetOut
  <2>2. /\ SubnetBlock(p).base \in Nat /\ out[p].cidr.mask \in Masks
        /\ End(SubnetBlock(p)) = SubnetBlock(p).base + BlockSize[out[p].cidr.mask]
    BY <2>1, BlockFacts DEF SubnetBlock
  <2>3. End(SubnetBlock(p)) <= Space
    BY <1>1, <1>3 DEF InAddressSpace
  <2>4. BlockSize[out[p].cidr.mask] \in Nat \ {0} /\ Space \in Nat
    BY <2>2, SizeFacts, WidthAssumption, BlockSizeAssumption DEF Space
  <2> QED BY <2>2, <2>3, <2>4
<1>7. n > 0 => 1 \in 1..n
  OBVIOUS
<1> QED BY <1>1, <1>2, <1>4, <1>5, <1>6, <1>7 DEF Tidy

-----------------------------------------------------------------------------
(* A list of specs, and where each starts when it follows the one before.  *)
ConvertedSpec == [type : Types, mask : Masks]

Subnets(cs, k) == Cardinality({j \in 1..k : cs[j].type # "unused"})

Starts(cs, st) ==
  /\ st \in [1..(Len(cs) + 1) -> Nat]
  /\ st[1] = SubnetBlock(1).base
  /\ \A k \in 1..Len(cs) : st[k + 1] = st[k] + BlockSize[cs[k].mask]

Laid(cs, st) ==
  /\ cs \in Seq(ConvertedSpec)
  /\ Starts(cs, st)
  /\ \A k \in 1..Len(cs) : st[k] % BlockSize[cs[k].mask] = 0
  /\ \A k \in 1..Len(cs) :
       cs[k].type # "unused" => st[k] = SubnetBlock(Subnets(cs, k)).base
  /\ \A k \in 2..Len(cs) :
       cs[k - 1].type = "unused" /\ cs[k].type = "unused" /\ cs[k - 1].mask = cs[k].mask
         => st[k - 1] % BlockSize[cs[k].mask - 1] # 0

(* The recursion of StartOf has one solution.                              *)
AreSums(f, n, d) ==
  f = [i \in 0..n |-> IF i = 0 THEN d[0] ELSE f[i - 1] + d[i]]

LEMMA StartIsUnique ==
  ASSUME NEW n \in Nat, NEW f, NEW g, NEW d, AreSums(f, n, d), AreSums(g, n, d)
  PROVE  f = g
<1> USE DEF AreSums
<1> DEFINE S == {i \in 0..n : f[i] # g[i]}
<1>1. ASSUME S # {} PROVE FALSE
  <2>1. S \in SUBSET Nat
    OBVIOUS
  <2> HIDE DEF S
  <2>2. PICK i \in S : \A k \in S : i <= k
    BY <1>1, <2>1, LeastFacts
  <2>3. i \in 0..n /\ f[i] # g[i]
    BY <2>2 DEF S
  <2>4. f[0] = d[0] /\ g[0] = d[0]
    OBVIOUS
  <2>5. i # 0
    BY <2>3, <2>4
  <2>6. i - 1 \in 0..n /\ ~(i <= i - 1)
    BY <2>3, <2>5
  <2>7. f[i - 1] = g[i - 1]
    BY <2>2, <2>6 DEF S
  <2>8. f[i] = f[i - 1] + d[i] /\ g[i] = g[i - 1] + d[i]
    BY <2>3, <2>5
  <2> QED BY <2>3, <2>7, <2>8
<1>2. \A i \in 0..n : f[i] = g[i]
  BY <1>1
<1> QED BY <1>2

LEMMA StartOfIs ==
  ASSUME converted \in Seq(ConvertedSpec), NEW st, Starts(converted, st),
         NEW k \in 1..Len(converted)
  PROVE  StartOf(k) = st[k]
<1> DEFINE start[i \in 0..k] ==
             IF i = 0 THEN SubnetBlock(1).base
             ELSE start[i - 1] + BlockSize[converted[i].mask]
           F == [i \in 0..k |-> st[i + 1]]
           d == [i \in 0..k |-> IF i = 0 THEN SubnetBlock(1).base
                                ELSE BlockSize[converted[i].mask]]
<1>1. StartOf(k) = start[k - 1]
  BY DEF StartOf
<1>2. F = [i \in 0..k |-> IF i = 0 THEN SubnetBlock(1).base
                          ELSE F[i - 1] + BlockSize[converted[i].mask]]
  <2> SUFFICES ASSUME NEW i \in 0..k
               PROVE  st[i + 1] = IF i = 0 THEN SubnetBlock(1).base
                                  ELSE F[i - 1] + BlockSize[converted[i].mask]
    OBVIOUS
  <2>1. CASE i = 0
    BY <2>1 DEF Starts
  <2>2. CASE i # 0
    <3>1. i \in 1..Len(converted) /\ i - 1 \in 0..k /\ (i - 1) + 1 = i
      BY <2>2
    <3> QED BY <2>2, <3>1 DEF Starts
  <2> QED BY <2>1, <2>2
<1>3. start = [i \in 0..k |-> IF i = 0 THEN SubnetBlock(1).base
                              ELSE start[i - 1] + BlockSize[converted[i].mask]]
  <2> DEFINE Is(f) == f = [i \in 0..k |-> IF i = 0 THEN SubnetBlock(1).base
                                ELSE f[i - 1] + BlockSize[converted[i].mask]]
  <2>1. start = CHOOSE f : Is(f)
    BY DEF start
  <2>2. Is(F)
    BY <1>2
  <2> HIDE DEF start, F
  <2> QED BY <2>1, <2>2
<1> HIDE DEF start
<1>4. F = start
  <2>1. AreSums(F, k, d) /\ AreSums(start, k, d)
    <3> HIDE DEF F
    <3>1. d[0] = SubnetBlock(1).base
          /\ \A i \in 0..k : i # 0 => d[i] = BlockSize[converted[i].mask]
      OBVIOUS
    <3> HIDE DEF d
    <3> QED BY <1>2, <1>3, <3>1 DEF AreSums
  <2> HIDE DEF F, d
  <2>2. k \in Nat
    OBVIOUS
  <2> QED BY <2>1, <2>2, StartIsUnique
<1>5. k - 1 \in 0..k /\ (k - 1) + 1 = k
  OBVIOUS
<1> QED BY <1>1, <1>4, <1>5

-----------------------------------------------------------------------------
AppendedStarts(cs, c, st) ==
  [k \in 1..(Len(cs) + 2) |->
     IF k <= Len(cs) + 1 THEN st[k] ELSE st[Len(cs) + 1] + BlockSize[c.mask]]

LEMMA SubnetsFacts ==
  ASSUME NEW cs \in Seq(ConvertedSpec), NEW c \in ConvertedSpec
  PROVE  /\ \A k \in 0..Len(cs) : /\ Subnets(Append(cs, c), k) = Subnets(cs, k)
                                  /\ Subnets(cs, k) \in Nat
         /\ Subnets(Append(cs, c), Len(cs) + 1)
              = Subnets(cs, Len(cs)) + (IF c.type # "unused" THEN 1 ELSE 0)
<1>1. PICK n \in Nat : n = Len(cs)
  OBVIOUS
<1> DEFINE ds == Append(cs, c)
<1>2. /\ \A j \in 1..n : ds[j] = cs[j]
      /\ ds[n + 1] = c
  BY <1>1
<1> HIDE DEF ds
<1> DEFINE S(k) == {j \in 1..k : cs[j].type # "unused"}
           T(k) == {j \in 1..k : ds[j].type # "unused"}
<1>3. ASSUME NEW k \in 0..n PROVE T(k) = S(k)
  <2>1. \A j \in 1..k : ds[j] = cs[j]
    BY <1>2
  <2> QED BY <2>1
<1>4. \A k \in 0..n : IsFiniteSet(S(k)) /\ Cardinality(S(k)) \in Nat
  <2> SUFFICES ASSUME NEW k \in 0..n
               PROVE  IsFiniteSet(S(k)) /\ Cardinality(S(k)) \in Nat
    OBVIOUS
  <2>1. IsFiniteSet(1..k) /\ S(k) \subseteq 1..k
    <3>1. k \in Int /\ 1 \in Int
      OBVIOUS
    <3>2. IsFiniteSet(1..k)
      BY <3>1, FS_Interval
    <3>3. S(k) \subseteq 1..k
      BY Zenon
    <3> QED BY <3>2, <3>3
  <2> HIDE DEF S
  <2> QED BY <2>1, FS_Subset, FS_CardinalityType
<1>5. T(n + 1) = IF c.type # "unused" THEN S(n) \cup {n + 1} ELSE S(n)
  <2>1. T(n + 1) = {j \in 1..(n + 1) : ds[j].type # "unused"}
    BY Zenon
  <2>2. 1..(n + 1) = (1..n) \cup {n + 1} /\ \A j \in 1..n : ds[j] = cs[j]
    BY <1>2
  <2>3. ds[n + 1] = c
    BY <1>2
  <2>4. S(n) = {j \in 1..n : ds[j].type # "unused"}
    BY <2>2
  <2> QED BY <2>1, <2>2, <2>3, <2>4
<1>6. n + 1 \notin S(n) /\ n \in 0..n
  BY <1>1
<1>7. \A k : Subnets(cs, k) = Cardinality(S(k)) /\ Subnets(Append(cs, c), k) = Cardinality(T(k))
  BY DEF Subnets, ds
<1> HIDE DEF S, T
<1>8. Cardinality(S(n) \cup {n + 1}) = Cardinality(S(n)) + 1
  BY <1>4, <1>6, FS_AddElement
<1> QED BY <1>1, <1>3, <1>4, <1>5, <1>6, <1>7, <1>8

(* One more spec: it starts where the last one ends.                       *)
CanFollow(cs, st, c) ==
  LET n == Len(cs)
      e == st[n + 1]
  IN  /\ c \in ConvertedSpec
      /\ e % BlockSize[c.mask] = 0
      /\ c.type # "unused" => e = SubnetBlock(Subnets(cs, n) + 1).base
      /\ n > 0 /\ c.type = "unused" /\ cs[n].type = "unused" /\ cs[n].mask = c.mask
           => st[n] % BlockSize[c.mask - 1] # 0

LEMMA LaidAppend ==
  ASSUME NEW cs, NEW st, Laid(cs, st), NEW c, CanFollow(cs, st, c),
         NEW n \in Nat, n = Len(cs)
  PROVE  /\ Laid(Append(cs, c), AppendedStarts(cs, c, st))
         /\ Len(Append(cs, c)) = n + 1
         /\ Append(cs, c)[n + 1] = c
         /\ AppendedStarts(cs, c, st)[n + 2] = st[n + 1] + BlockSize[c.mask]
         /\ AppendedStarts(cs, c, st)[n + 1] = st[n + 1]
         /\ Subnets(Append(cs, c), n + 1)
              = Subnets(cs, n) + (IF c.type # "unused" THEN 1 ELSE 0)
<1> DEFINE e == st[n + 1]
<1>0. /\ c \in ConvertedSpec
      /\ e % BlockSize[c.mask] = 0
      /\ c.type # "unused" => e = SubnetBlock(Subnets(cs, n) + 1).base
      /\ n > 0 /\ c.type = "unused" /\ cs[n].type = "unused" /\ cs[n].mask = c.mask
           => st[n] % BlockSize[c.mask - 1] # 0
  BY DEF CanFollow
<1> DEFINE ds == Append(cs, c)
           tt == AppendedStarts(cs, c, st)
           z == BlockSize[c.mask]
<1>1. /\ cs \in Seq(ConvertedSpec) /\ st \in [1..(n + 1) -> Nat] /\ st[1] = SubnetBlock(1).base
      /\ \A k \in 1..n : st[k + 1] = st[k] + BlockSize[cs[k].mask]
      /\ \A k \in 1..n : st[k] % BlockSize[cs[k].mask] = 0
      /\ \A k \in 1..n : cs[k].type # "unused" => st[k] = SubnetBlock(Subnets(cs, k)).base
      /\ \A k \in 2..n :
           cs[k - 1].type = "unused" /\ cs[k].type = "unused" /\ cs[k - 1].mask = cs[k].mask
             => st[k - 1] % BlockSize[cs[k].mask - 1] # 0
  BY DEF Laid, Starts
<1>2. z \in Nat \ {0} /\ e \in Nat
  <2>1. c.mask \in Masks
    BY <1>0 DEF ConvertedSpec
  <2> QED BY <1>1, <2>1, SizeFacts
<1>3. /\ ds \in Seq(ConvertedSpec) /\ Len(ds) = n + 1
      /\ \A k \in 1..n : ds[k] = cs[k]
      /\ ds[n + 1] = c
  <2> HIDE DEF ConvertedSpec
  <2> QED BY <1>0, <1>1
<1>4. /\ tt \in [1..(n + 2) -> Nat]
      /\ \A k \in 1..(n + 1) : tt[k] = st[k]
      /\ tt[n + 2] = e + z
  <2>1. tt = [k \in 1..(n + 2) |-> IF k <= n + 1 THEN st[k] ELSE e + z]
    BY DEF AppendedStarts
  <2> HIDE DEF tt, z, e
  <2> QED BY <1>1, <1>2, <2>1
<1>5. /\ \A k \in 1..n : Subnets(ds, k) = Subnets(cs, k)
      /\ Subnets(ds, n + 1) = Subnets(cs, n) + (IF c.type # "unused" THEN 1 ELSE 0)
      /\ Subnets(cs, n) \in Nat
  BY <1>0, <1>1, SubnetsFacts
<1> HIDE DEF ds, tt
<1>6. Starts(ds, tt)
  <2>1. \A k \in 1..(n + 1) : tt[k + 1] = tt[k] + BlockSize[ds[k].mask]
    <3> SUFFICES ASSUME NEW k \in 1..(n + 1)
                 PROVE  tt[k + 1] = tt[k] + BlockSize[ds[k].mask]
      OBVIOUS
    <3>1. CASE k = n + 1
      BY <1>3, <1>4, <3>1
    <3>2. CASE k \in 1..n
      BY <1>1, <1>3, <1>4, <3>2
    <3> QED BY <3>1, <3>2
  <2>2. (n + 1) + 1 = n + 2
    OBVIOUS
  <2> QED BY <1>1, <1>3, <1>4, <2>1, <2>2 DEF Starts
<1>7. \A k \in 1..(n + 1) : tt[k] % BlockSize[ds[k].mask] = 0
  <2> SUFFICES ASSUME NEW k \in 1..(n + 1) PROVE tt[k] % BlockSize[ds[k].mask] = 0
    OBVIOUS
  <2>1. CASE k = n + 1
    BY <1>0, <1>3, <1>4, <2>1
  <2>2. CASE k \in 1..n
    BY <1>1, <1>3, <1>4, <2>2
  <2> QED BY <2>1, <2>2
<1>8. \A k \in 1..(n + 1) :
        ds[k].type # "unused" => tt[k] = SubnetBlock(Subnets(ds, k)).base
  <2> SUFFICES ASSUME NEW k \in 1..(n + 1), ds[k].type # "unused"
               PROVE  tt[k] = SubnetBlock(Subnets(ds, k)).base
    OBVIOUS
  <2>1. CASE k = n + 1
    BY <1>0, <1>3, <1>4, <1>5, <2>1
  <2>2. CASE k \in 1..n
    BY <1>1, <1>3, <1>4, <1>5, <2>2
  <2> QED BY <2>1, <2>2
<1>9. \A k \in 2..(n + 1) :
        ds[k - 1].type = "unused" /\ ds[k].type = "unused" /\ ds[k - 1].mask = ds[k].mask
          => tt[k - 1] % BlockSize[ds[k].mask - 1] # 0
  <2> SUFFICES ASSUME NEW k \in 2..(n + 1), ds[k - 1].type = "unused",
                      ds[k].type = "unused", ds[k - 1].mask = ds[k].mask
               PROVE  tt[k - 1] % BlockSize[ds[k].mask - 1] # 0
    OBVIOUS
  <2>1. CASE k = n + 1
    <3>1. k - 1 = n /\ n \in 1..n /\ n \in 1..(n + 1) /\ n > 0
      BY <2>1
    <3>2. ds[k - 1] = cs[n] /\ ds[k] = c /\ tt[k - 1] = st[n]
      BY <1>3, <1>4, <2>1, <3>1
    <3> QED BY <1>0, <3>1, <3>2
  <2>2. CASE k \in 2..n
    <3>1. k \in 1..n /\ k - 1 \in 1..n /\ k - 1 \in 1..(n + 1)
      BY <2>2
    <3>2. ds[k] = cs[k] /\ ds[k - 1] = cs[k - 1] /\ tt[k - 1] = st[k - 1]
      BY <1>3, <1>4, <3>1
    <3>3. cs[k - 1].type = "unused" /\ cs[k].type = "unused" /\ cs[k - 1].mask = cs[k].mask
      BY <3>2
    <3>4. st[k - 1] % BlockSize[cs[k].mask - 1] # 0
      BY <2>2, <3>3 DEF Laid
    <3> QED BY <3>2, <3>4, Zenon
  <2> QED BY <2>1, <2>2
<1>10. Laid(ds, tt)
  BY <1>3, <1>6, <1>7, <1>8, <1>9 DEF Laid
<1>11. n + 1 \in 1..(n + 1)
  OBVIOUS
<1> QED BY <1>3, <1>4, <1>5, <1>10, <1>11 DEF ds, tt

LEMMA LaidEmpty ==
  ASSUME SubnetBlock(1).base \in Nat
  PROVE  /\ Laid(<<>>, [i \in 1..1 |-> SubnetBlock(1).base])
         /\ Subnets(<<>>, 0) = 0
<1>1. {j \in 1..0 : <<>>[j].type # "unused"} = {}
  OBVIOUS
<1>2. Subnets(<<>>, 0) = 0
  BY <1>1, FS_EmptySet DEF Subnets
<1>3. Len(<<>>) = 0 /\ <<>> \in Seq(ConvertedSpec)
  OBVIOUS
<1> QED BY <1>2, <1>3 DEF Laid, Starts

-----------------------------------------------------------------------------
(* Where the conversion stands: after a subnet, or in the gap behind it.   *)
Unstarted(cs, p, g) == cs = <<>> /\ p = 0 /\ g = Undefined

GapAt(cs, st, p, g) ==
  LET n == Len(cs)
      e == st[n + 1]
      next == SubnetBlock(p + 1)
      m == g.next.mask
  IN  /\ p < SingleAzLength
      /\ next.base < Space
      /\ g \in [next : [base : Nat, mask : Masks], lastBefore : Nat]
      /\ g.next.base = e
      /\ End(SubnetBlock(p)) <= e /\ e <= next.base
      /\ e % BlockSize[m] = 0 /\ next.base % BlockSize[m] = 0
      /\ g.lastBefore < e /\ e <= g.lastBefore + BlockSize[m]
      /\ cs[n].type = "unused" =>
           /\ cs[n].mask = m
           /\ st[n] % BlockSize[m - 1] = 0 => FirstHost(next) < st[n] + BlockSize[m - 1]

StandsAt(cs, st, p, g) ==
  /\ Laid(cs, st)
  /\ p \in 1..SingleAzLength
  /\ SubnetBlock(p).base < Space
  /\ Len(cs) > 0 /\ Subnets(cs, Len(cs)) = p
  /\ g = Undefined => /\ st[Len(cs) + 1] = End(SubnetBlock(p))
                      /\ cs[Len(cs)].type # "unused"
  /\ g # Undefined => GapAt(cs, st, p, g)

(* The next subnet is out of reach: findSubnetGap goes round the address   *)
(* space for ever.                                                         *)
Stuck(p) ==
  /\ p \in 1..(SingleAzLength - 1)
  /\ SubnetBlock(p).base < Space
  /\ Space <= SubnetBlock(p + 1).base

Converting(cs, p, g) ==
  Unstarted(cs, p, g) \/ Stuck(p) \/ \E st : StandsAt(cs, st, p, g)

ConversionInv ==
  IF phase = "returned" THEN Tidy => Converting(converted, position, gap)
  ELSE Unstarted(converted, position, gap)

-----------------------------------------------------------------------------
LEMMA StandsFacts ==
  ASSUME NEW cs, NEW st, NEW p, NEW g, StandsAt(cs, st, p, g)
  PROVE  /\ Laid(cs, st) /\ p \in 1..SingleAzLength
         /\ cs \in Seq(ConvertedSpec)
         /\ Len(cs) \in Nat /\ Len(cs) > 0 /\ Subnets(cs, Len(cs)) = p
         /\ st[Len(cs) + 1] \in Nat /\ st[Len(cs)] \in Nat
         /\ cs[Len(cs)].mask \in Masks
         /\ st[Len(cs) + 1] = st[Len(cs)] + BlockSize[cs[Len(cs)].mask]
<1>1. /\ cs \in Seq(ConvertedSpec) /\ Starts(cs, st) /\ Len(cs) > 0
  BY DEF StandsAt, Laid
<1>2. Len(cs) \in Nat /\ Len(cs) \in 1..Len(cs)
      /\ Len(cs) \in 1..(Len(cs) + 1) /\ Len(cs) + 1 \in 1..(Len(cs) + 1)
  BY <1>1
<1>3. cs[Len(cs)] \in ConvertedSpec
  BY <1>1, <1>2
<1> QED BY <1>1, <1>2, <1>3 DEF Starts, StandsAt, ConvertedSpec

(* The first address behind a gap that a block may not hold.               *)
LEMMA FirstHostFacts ==
  ASSUME IInv, FirstInv, Tidy, NEW p \in 1..SingleAzLength,
         SubnetBlock(p).base < Space
  PROVE  LET u == SubnetBlock(p).base
             fh == FirstHost(SubnetBlock(p))
         IN  /\ fh \in {u, u + 1} /\ u \in Nat /\ u < Space /\ fh < Space
             /\ Space \in Nat
             /\ fh = u + 1 => u % BlockSize[Width - 1] = 0
<1> DEFINE u == SubnetBlock(p).base
           fh == FirstHost(SubnetBlock(p))
           m == out[p].cidr.mask
           z == BlockSize[m]
<1>1. /\ m \in Masks /\ u \in Nat /\ u % z = 0 /\ SubnetBlock(p).mask = m
      /\ u + z <= Space
  <2>1. /\ m \in Masks /\ u \in Nat /\ u % z = 0
        /\ SubnetBlock(p) = [base |-> u, mask |-> m]
        /\ End(SubnetBlock(p)) = u + z /\ End(SubnetBlock(p)) <= Space
    BY TidyFacts
  <2>2. [base |-> u, mask |-> m].mask = m
    OBVIOUS
  <2> QED BY <2>1, <2>2
<1>2. z \in Nat \ {0} /\ m \in Nat /\ m <= Width /\ Width \in Nat /\ Width >= 2
  BY <1>1, SizeFacts, WidthAssumption DEF Masks
<1>3. Space \in Nat
  BY WidthAssumption, BlockSizeAssumption DEF Space
<1>4. fh = u + (IF m <= Width - 2 THEN 1 ELSE 0)
  BY <1>1 DEF FirstHost
<1>5. ASSUME m <= Width - 2 PROVE z >= 2 /\ u % BlockSize[Width - 1] = 0
  <2>1. /\ m \in 0..(Width - 1) /\ m + 1 \in Masks /\ m \in 0..Width
        /\ Width - 1 \in 0..Width /\ Width - 1 \in Masks /\ m <= Width - 1
    BY <1>2, <1>5, <1>1 DEF Masks
  <2>2. z = 2 * BlockSize[m + 1] /\ BlockSize[m + 1] \in Nat \ {0}
    BY <2>1, BlockSizeAssumption, SizeFacts
  <2>3. z % BlockSize[Width - 1] = 0 /\ BlockSize[Width - 1] \in Nat \ {0}
    BY <2>1, BlockSizeAssumption, SizeFacts
  <2> HIDE DEF z, u, m
  <2>4. u % BlockSize[Width - 1] = 0
    BY <1>1, <1>2, <2>3, MultipleOfMultiple
  <2> QED BY <2>2, <2>4
<1> HIDE DEF z, u, m, fh
<1>6. fh \in {u, u + 1} /\ fh < u + z
  BY <1>1, <1>2, <1>4, <1>5
<1>7. fh = u + 1 => m <= Width - 2
  BY <1>1, <1>4
<1> QED BY <1>1, <1>2, <1>3, <1>5, <1>6, <1>7 DEF u, fh

-----------------------------------------------------------------------------
LEMMA SubnetConverted ==
  ASSUME IInv, FirstInv, Tidy, Converting(converted, position, gap), ConvertSubnet,
         gap # Undefined => gap.next \in Block
  PROVE  Converting(converted', position', gap')
<1> DEFINE p == position + 1
           c == ConvertedSubnet(p)
<1>1. /\ position < SingleAzLength /\ gap' = Undefined
      /\ converted' = Append(converted, c) /\ position' = p
      /\ position > 0 => gap # Undefined /\ gap.next.base >= Upper.base
  BY DEF ConvertSubnet
<1>2. SingleAzLength \in Nat
  BY TidyFacts
<1>3. \/ Unstarted(converted, position, gap)
      \/ Stuck(position)
      \/ \E st : StandsAt(converted, st, position, gap)
  BY DEF Converting
<1>4. p \in 1..SingleAzLength
  <2>1. position \in Nat
    BY <1>2, <1>3, StandsFacts DEF Unstarted, Stuck
  <2> QED BY <1>1, <1>2, <2>1
<1> HIDE DEF p
<1>5. /\ out[p].cidr.mask \in Masks /\ out[p].type \in PlacedTypes
      /\ SubnetBlock(p).base \in Nat
      /\ SubnetBlock(p).base % BlockSize[out[p].cidr.mask] = 0
      /\ End(SubnetBlock(p)) = SubnetBlock(p).base + BlockSize[out[p].cidr.mask]
  BY <1>4, TidyFacts
<1>6. c \in ConvertedSpec /\ c.mask = out[p].cidr.mask /\ c.type # "unused"
  BY <1>5 DEF ConvertedSubnet, ConvertedSpec, Types, PlacedTypes
<1> HIDE DEF c
<1>7. ASSUME NEW cs, cs = converted, NEW st, Laid(cs, st), NEW n \in Nat, n = Len(cs),
             st[n + 1] = SubnetBlock(p).base, Subnets(cs, n) + 1 = p,
             SubnetBlock(p).base < Space
      PROVE  Converting(converted', position', gap')
  <2> DEFINE ds == Append(cs, c)
             tt == AppendedStarts(cs, c, st)
  <2>2. CanFollow(cs, st, c)
    BY <1>5, <1>6, <1>7 DEF CanFollow
  <2>3. /\ Laid(ds, tt) /\ Len(ds) = n + 1 /\ ds[n + 1] = c
        /\ tt[n + 2] = st[n + 1] + BlockSize[c.mask]
        /\ Subnets(ds, n + 1) = Subnets(cs, n) + (IF c.type # "unused" THEN 1 ELSE 0)
    BY <1>7, <2>2, LaidAppend
  <2> HIDE DEF ds, tt
  <2>4. StandsAt(ds, tt, p, Undefined)
    <3>1. (n + 1) + 1 = n + 2 /\ n + 1 > 0
      OBVIOUS
    <3>2. tt[n + 2] = End(SubnetBlock(p))
      BY <1>5, <1>6, <1>7, <2>3
    <3> QED BY <1>4, <1>6, <1>7, <2>3, <3>1, <3>2 DEF StandsAt
  <2>5. converted' = ds /\ position' = p /\ gap' = Undefined
    BY <1>1, <1>7 DEF ds
  <2> QED BY <2>4, <2>5 DEF Converting
<1>8. CASE Unstarted(converted, position, gap)
  <2>1. converted = <<>> /\ p = 1
    BY <1>8 DEF Unstarted, p
  <2> DEFINE st == [i \in 1..1 |-> SubnetBlock(1).base]
  <2>2. Laid(<<>>, st) /\ Subnets(<<>>, 0) = 0
    BY <1>5, <2>1, LaidEmpty
  <2>3. st[0 + 1] = SubnetBlock(p).base /\ Len(<<>>) = 0
    BY <2>1
  <2>5. SingleAzLength > 0
    BY <1>2, <1>4
  <2>6. SubnetBlock(p).base < Space
    BY <2>1, <2>5 DEF Tidy
  <2>4. Subnets(<<>>, 0) + 1 = p /\ 0 \in Nat
    BY <2>1, <2>2
  <2> HIDE DEF st
  <2> QED BY <1>7, <2>1, <2>2, <2>3, <2>4, <2>6
<1>9. ASSUME NEW st, StandsAt(converted, st, position, gap)
      PROVE  Converting(converted', position', gap')
  <2>1. PICK cs : cs = converted
    OBVIOUS
  <2>2. PICK n : n = Len(cs)
    OBVIOUS
  <2>3. PICK q : q = position
    OBVIOUS
  <2>4. /\ n \in Nat /\ n > 0 /\ Subnets(cs, n) = q /\ Laid(cs, st)
        /\ st[n + 1] \in Nat /\ q \in 1..SingleAzLength
    BY <1>9, <2>1, <2>2, <2>3, StandsFacts
  <2>5. gap # Undefined /\ GapAt(cs, st, q, gap) /\ gap.next.base >= Upper.base
    <3>1. position > 0
      BY <1>2, <2>3, <2>4
    <3> QED BY <1>1, <1>9, <2>1, <2>3, <3>1 DEF StandsAt
  <2>6. p = q + 1 /\ q < SingleAzLength
    BY <1>1, <2>3 DEF p
  <2>7. /\ gap.next.base = st[n + 1] /\ st[n + 1] <= SubnetBlock(p).base
        /\ End(SubnetBlock(q)) <= st[n + 1] /\ SubnetBlock(p).base < Space
    BY <2>2, <2>5, <2>6 DEF GapAt
  <2>8. Upper = SubnetBlock(p)
    <3>1. /\ SubnetBlock(q).base \in Nat /\ BlockSize[out[q].cidr.mask] \in Nat \ {0}
          /\ End(SubnetBlock(q)) = SubnetBlock(q).base + BlockSize[out[q].cidr.mask]
          /\ End(SubnetBlock(q)) <= SubnetBlock(q + 1).base
          /\ SubnetBlock(q + 1).base \in Nat
      <4>1. q + 1 \in 1..SingleAzLength
        BY <1>4, <2>6
      <4> QED BY <2>4, <2>6, <4>1, TidyFacts, SizeFacts
    <3>2. SubnetBlock(q).base < SubnetBlock(q + 1).base
      BY <3>1
    <3> QED BY <2>3, <2>6, <3>2 DEF Upper, Previous, Upcoming
  <2>9. st[n + 1] = SubnetBlock(p).base
    BY <1>5, <2>4, <2>5, <2>7, <2>8
  <2>10. Subnets(cs, n) + 1 = p
    BY <2>4, <2>6
  <2> QED BY <1>7, <2>1, <2>2, <2>4, <2>7, <2>9, <2>10
<1>10. CASE Stuck(position)
  <2>1. PICK q : q = position
    OBVIOUS
  <2>2. /\ q \in 1..SingleAzLength /\ q < SingleAzLength /\ q > 0
        /\ SubnetBlock(q).base < Space /\ Space <= SubnetBlock(q + 1).base
    BY <1>2, <1>10, <2>1 DEF Stuck
  <2>3. Upper = SubnetBlock(q + 1)
    <3>1. SubnetBlock(q).base \in Nat /\ SubnetBlock(q + 1).base \in Nat /\ Space \in Nat
      <4>1. q + 1 \in 1..SingleAzLength
        BY <1>2, <2>2
      <4>2. SubnetBlock(q).base \in Nat /\ SubnetBlock(q + 1).base \in Nat
        BY <2>2, <4>1, TidyFacts
      <4>3. Space \in Nat
        BY WidthAssumption, BlockSizeAssumption DEF Space
      <4> QED BY <4>2, <4>3
    <3>2. SubnetBlock(q).base < SubnetBlock(q + 1).base
      BY <2>2, <3>1
    <3> QED BY <2>1, <3>2 DEF Upper, Previous, Upcoming
  <2>4. gap.next.base \in Nat /\ gap.next.base < Space /\ Space \in Nat
    <3>1. gap.next \in Block
      BY <1>1, <2>1, <2>2
    <3>2. Space \in Nat
      BY WidthAssumption, BlockSizeAssumption DEF Space
    <3> QED BY <3>1, <3>2 DEF Block, Addresses
  <2>5. gap.next.base >= SubnetBlock(q + 1).base /\ SubnetBlock(q + 1).base \in Nat
    <3>1. q + 1 \in 1..SingleAzLength
      BY <1>2, <2>2
    <3> QED BY <1>1, <2>1, <2>2, <2>3, <3>1, TidyFacts
  <2> QED BY <2>2, <2>4, <2>5
<1> QED BY <1>3, <1>8, <1>9, <1>10

-----------------------------------------------------------------------------
LEMMA GapTyped ==
  ASSUME NEW e \in Addresses, NEW m \in Masks, NEW lb \in Addresses
  PROVE  LET g == [next |-> [base |-> e, mask |-> m], lastBefore |-> lb]
         IN  /\ g # Undefined
             /\ g \in [next : [base : Nat, mask : Masks], lastBefore : Nat]
<1> DEFINE g == [next |-> [base |-> e, mask |-> m], lastBefore |-> lb]
<1>1. g \in Gap
  BY DEF Gap, Block
<1>2. g # Undefined
  BY <1>1, UndefinedIsNothing
<1>3. Addresses \subseteq Nat
  BY WidthAssumption, BlockSizeAssumption DEF Addresses, Space
<1>4. e \in Nat /\ lb \in Nat
  BY <1>3
<1> QED BY <1>2, <1>4

(* Two subnets that follow one another.                                    *)
LEMMA BetweenFacts ==
  ASSUME IInv, FirstInv, Tidy, NEW q \in 1..SingleAzLength, q < SingleAzLength,
         SubnetBlock(q + 1).base < Space
  PROVE  LET m == out[q].cidr.mask
             e == End(SubnetBlock(q))
             u == SubnetBlock(q + 1).base
         IN  /\ m \in Masks /\ BlockSize[m] \in Nat \ {0}
             /\ SubnetBlock(q).base \in Nat /\ SubnetBlock(q).base % BlockSize[m] = 0
             /\ SubnetBlock(q) = [base |-> SubnetBlock(q).base, mask |-> m]
             /\ e = SubnetBlock(q).base + BlockSize[m] /\ e \in Nat /\ e % BlockSize[m] = 0
             /\ q + 1 \in 1..SingleAzLength
             /\ u \in Nat /\ e <= u /\ u < Space /\ u % BlockSize[m] = 0
             /\ SubnetBlock(q).base < u
             /\ Space \in Nat
<1> DEFINE m == out[q].cidr.mask
           e == End(SubnetBlock(q))
           u == SubnetBlock(q + 1).base
           b == SubnetBlock(q).base
           z == BlockSize[m]
<1>1. SingleAzLength \in Nat /\ q \in Nat /\ q + 1 \in 1..SingleAzLength
  BY TidyFacts
<1>2. /\ m \in Masks /\ b \in Nat /\ b % z = 0
      /\ SubnetBlock(q) = [base |-> b, mask |-> m]
      /\ e = b + z /\ e <= u /\ u % z = 0
  BY TidyFacts
<1>3. u \in Nat /\ u < Space /\ Space \in Nat
  BY <1>1, FirstHostFacts
<1>4. z \in Nat \ {0}
  BY <1>2, SizeFacts
<1> HIDE DEF m, e, u, b, z
<1>5. e % z = 0
  <2>1. z % z = 0
    BY <1>4
  <2>2. z \in Nat
    BY <1>4
  <2>3. (b + z) % z = b % z
    BY <1>2, <1>4, <2>1, <2>2, RemainderOfSum
  <2> QED BY <1>2, <2>3
<1>6. e \in Nat /\ b < u
  BY <1>2, <1>3, <1>4
<1> QED BY <1>1, <1>2, <1>3, <1>4, <1>5, <1>6 DEF m, e, u, b, z

LEMMA GapOpened ==
  ASSUME IInv, FirstInv, Tidy, Converting(converted, position, gap), OpenGap
  PROVE  Converting(converted', position', gap')
<1>1. /\ position \in 1..(SingleAzLength - 1) /\ gap = Undefined
      /\ gap' = [next |-> NextBlock(Lower), lastBefore |-> LastHost(Previous)]
      /\ converted' = converted /\ position' = position
  BY DEF OpenGap
<1>2. SingleAzLength \in Nat
  BY TidyFacts
<1>3. PICK q : q = position
  OBVIOUS
<1>4. q \in 1..SingleAzLength /\ q < SingleAzLength /\ q # 0
  BY <1>1, <1>2, <1>3
<1>5. PICK cs : cs = converted
  OBVIOUS
<1> SUFFICES ASSUME ~Stuck(q) PROVE Converting(converted', position', gap')
  BY <1>1, <1>3 DEF Converting
<1>6. PICK st : StandsAt(cs, st, q, Undefined)
  BY <1>1, <1>3, <1>4, <1>5 DEF Converting, Unstarted
<1>0. SubnetBlock(q).base < Space /\ SubnetBlock(q + 1).base < Space
  <2>1. SubnetBlock(q).base < Space
    BY <1>6 DEF StandsAt
  <2>2. q \in 1..(SingleAzLength - 1) /\ q + 1 \in 1..SingleAzLength
    BY <1>1, <1>2, <1>3
  <2>3. SubnetBlock(q + 1).base \in Nat /\ Space \in Nat
    BY <2>2, TidyFacts, WidthAssumption, BlockSizeAssumption, SMTT(30) DEF Space
  <2> QED BY <2>1, <2>2, <2>3 DEF Stuck
<1> DEFINE m == out[q].cidr.mask
           b == SubnetBlock(q).base
           e == End(SubnetBlock(q))
           u == SubnetBlock(q + 1).base
           z == BlockSize[m]
           lb == LastHost(SubnetBlock(q))
<1>7. /\ m \in Masks /\ z \in Nat \ {0} /\ b \in Nat /\ b % z = 0
      /\ SubnetBlock(q) = [base |-> b, mask |-> m]
      /\ e = b + z /\ e \in Nat /\ e % z = 0
      /\ u \in Nat /\ e <= u /\ u < Space /\ u % z = 0 /\ b < u /\ Space \in Nat
  BY <1>0, <1>4, BetweenFacts
<1>8. b + z < Space
  BY <1>7
<1>9. /\ NextBlock(SubnetBlock(q)) = [base |-> b + z, mask |-> m]
      /\ lb \in Nat /\ b <= lb /\ lb < b + z
  BY <1>7, <1>8, FollowingFacts
<1>10. Lower = SubnetBlock(q) /\ Previous = SubnetBlock(q)
  BY <1>3, <1>7 DEF Lower, Previous, Upcoming
<1> DEFINE g == [next |-> [base |-> e, mask |-> m], lastBefore |-> lb]
<1>11. gap' = g
  BY <1>1, <1>7, <1>9, <1>10
<1>12. /\ Laid(cs, st) /\ Len(cs) > 0 /\ Subnets(cs, Len(cs)) = q
       /\ st[Len(cs) + 1] = e /\ cs[Len(cs)].type # "unused"
  BY <1>6 DEF StandsAt
<1> HIDE DEF m, b, e, u, z, lb
<1>13. e \in Addresses /\ lb \in Addresses
  BY <1>7, <1>9 DEF Addresses
<1>14. g # Undefined /\ g \in [next : [base : Nat, mask : Masks], lastBefore : Nat]
  BY <1>7, <1>13, GapTyped
<1>15. g.next.base = e /\ g.next.mask = m /\ g.lastBefore = lb
  OBVIOUS
<1>16. lb < e /\ e <= lb + z
  BY <1>7, <1>9
<1> HIDE DEF g
<1>17. GapAt(cs, st, q, g)
  <2>1. End(SubnetBlock(q)) <= e
    BY <1>7 DEF e
  <2> QED BY <1>0, <1>4, <1>7, <1>12, <1>14, <1>15, <1>16, <2>1 DEF GapAt, u, z
<1>18. StandsAt(cs, st, q, g)
  BY <1>0, <1>4, <1>12, <1>14, <1>17 DEF StandsAt
<1> QED BY <1>1, <1>3, <1>5, <1>11, <1>18 DEF Converting

LEMMA GapFilled ==
  ASSUME IInv, FirstInv, Tidy, Converting(converted, position, gap), FillGap
  PROVE  Converting(converted', position', gap')
<1>1. /\ gap # Undefined /\ gap.next.base < Upper.base /\ position' = position
  BY DEF FillGap
<1>2. PICK q : q = position
  OBVIOUS
<1>3. PICK cs : cs = converted
  OBVIOUS
<1>4. PICK g : g = gap
  OBVIOUS
<1> SUFFICES ASSUME ~Stuck(q) PROVE Converting(converted', position', gap')
  BY <1>1, <1>2 DEF Converting
<1>5. PICK st : StandsAt(cs, st, q, g)
  BY <1>1, <1>2, <1>3, <1>4 DEF Converting, Unstarted
<1>6. GapAt(cs, st, q, g)
  BY <1>1, <1>4, <1>5 DEF StandsAt
<1>7. PICK n \in Nat : n = Len(cs)
  BY <1>5, StandsFacts
<1>8. /\ Laid(cs, st) /\ q \in 1..SingleAzLength /\ q < SingleAzLength
      /\ n > 0 /\ Subnets(cs, n) = q /\ cs \in Seq(ConvertedSpec)
      /\ st[n + 1] \in Nat /\ st[n] \in Nat /\ cs[n].mask \in Masks
      /\ st[n + 1] = st[n] + BlockSize[cs[n].mask]
  BY <1>5, <1>6, <1>7, StandsFacts DEF GapAt
<1> DEFINE e == st[n + 1]
           u == SubnetBlock(q + 1).base
           m == g.next.mask
           lb == g.lastBefore
           fh == FirstHost(SubnetBlock(q + 1))
<1>9. /\ g.next = [base |-> e, mask |-> m] /\ m \in Masks /\ lb \in Nat
      /\ End(SubnetBlock(q)) <= e /\ e <= u
      /\ e % BlockSize[m] = 0 /\ u % BlockSize[m] = 0
      /\ lb < e /\ e <= lb + BlockSize[m]
      /\ cs[n].type = "unused" =>
           /\ cs[n].mask = m
           /\ st[n] % BlockSize[m - 1] = 0 => fh < st[n] + BlockSize[m - 1]
  BY <1>6, <1>7 DEF GapAt
<1>0. SubnetBlock(q).base < Space /\ u < Space
  BY <1>5, <1>6 DEF StandsAt, GapAt
<1>10. /\ u \in Nat /\ u < Space /\ Space \in Nat /\ q + 1 \in 1..SingleAzLength
       /\ SubnetBlock(q).base < u /\ End(SubnetBlock(q)) \in Nat
  BY <1>0, <1>8, BetweenFacts
<1>11. Upper = SubnetBlock(q + 1)
  BY <1>2, <1>10 DEF Upper, Previous, Upcoming
<1>12. e < u
  BY <1>1, <1>4, <1>9, <1>11
<1>13. /\ fh \in {u, u + 1} /\ fh < Space
       /\ fh = u + 1 => u % BlockSize[Width - 1] = 0
  BY <1>10, FirstHostFacts
<1>14. PICK t \in Masks : u % BlockSize[t] = 0 /\ u - e <= BlockSize[t]
  <2>1. q \in 1..(SingleAzLength - 1)
    <3>1. SingleAzLength \in Nat
      BY TidyFacts
    <3> QED BY <1>8, <3>1
  <2>2. GapEndsBlock(q)
    BY <2>1 DEF Tidy, GapsEndBlocks
  <2>3. PICK t \in Masks : u % BlockSize[t] = 0 /\ u - End(SubnetBlock(q)) <= BlockSize[t]
    BY <2>2 DEF GapEndsBlock
  <2>4. BlockSize[t] \in Nat /\ e \in Nat
    BY <1>8, SizeFacts
  <2> HIDE DEF e, u
  <2>5. u - e <= BlockSize[t]
    BY <1>9, <1>10, <2>3, <2>4
  <2> QED BY <2>3, <2>5
<1> DEFINE x == [base |-> e, mask |-> m]
<1>15. PICK w \in 1..m :
         /\ Widest(x, lb, fh) = [base |-> e, mask |-> w]
         /\ e % BlockSize[w] = 0 /\ u % BlockSize[w] = 0
         /\ e + BlockSize[w] <= u
         /\ w > 1 /\ e % BlockSize[w - 1] = 0 => fh < e + BlockSize[w - 1]
  <2>1. e \in Nat /\ lb \in Int
    BY <1>8, <1>9
  <2> HIDE DEF e, u, m, lb, fh
  <2> QED BY <1>9, <1>10, <1>12, <1>13, <1>14, <2>1, GapBlock DEF x
<1> DEFINE y == [base |-> e, mask |-> w]
           z == BlockSize[w]
           c == Unused(y)
           h == [next |-> [base |-> e + z, mask |-> w], lastBefore |-> LastHost(y)]
<1>16. converted' = Append(cs, c) /\ gap' = [next |-> NextBlock(y), lastBefore |-> LastHost(y)]
  <2>1. Widest(gap.next, gap.lastBefore, FirstHost(Upper)) = y
    BY <1>4, <1>9, <1>11, <1>15
  <2> QED BY <1>3, <2>1 DEF FillGap
<1>17. w \in Masks /\ w \in Nat /\ z \in Nat \ {0} /\ e \in Nat /\ w <= m /\ m \in Nat
  <2>1. w \in Masks
    BY <1>9, WidthFacts DEF Masks
  <2>2. w \in Nat /\ m \in Nat
    BY <1>9, <2>1 DEF Masks
  <2>3. w <= m
    <3> HIDE DEF m, e, u, fh, lb
    <3> QED BY <1>15, <2>2
  <2>4. z \in Nat \ {0}
    BY <2>1, SizeFacts
  <2>5. e \in Nat
    BY <1>7, <1>8
  <2> QED BY <2>1, <2>2, <2>3, <2>4, <2>5
<1>18. e + z < Space
  <2> HIDE DEF e, z, u
  <2> QED BY <1>10, <1>15, <1>17 DEF z
<1>19. /\ NextBlock(y) = [base |-> e + z, mask |-> w] /\ (e + z) % z = 0
       /\ LastHost(y) \in Nat /\ e <= LastHost(y) /\ LastHost(y) < e + z
  <2> HIDE DEF e
  <2> QED BY <1>15, <1>17, <1>18, FollowingFacts
<1>20. c = [type |-> "unused", mask |-> w] /\ c \in ConvertedSpec
  BY <1>17 DEF Unused, ConvertedSpec, Types
<1>21. e % BlockSize[w - 1] = 0 => fh < e + BlockSize[w - 1]
  <2>1. CASE w > 1
    BY <1>15, <2>1
  <2>2. CASE w = 1
    <3>1. BlockSize[w - 1] = Space
      BY <2>2 DEF Space
    <3> HIDE DEF e, fh, u
    <3> QED BY <1>10, <1>13, <1>17, <3>1
  <2> QED BY <1>15, <2>1, <2>2
<1>22. cs[n].type = "unused" /\ cs[n].mask = w => st[n] % BlockSize[w - 1] # 0
  <2> SUFFICES ASSUME cs[n].type = "unused", cs[n].mask = w, st[n] % BlockSize[w - 1] = 0
               PROVE  FALSE
    OBVIOUS
  <2>1. m = w /\ fh < st[n] + BlockSize[w - 1] /\ e = st[n] + z
    BY <1>8, <1>9
  <2>2. BlockSize[w - 1] = 2 * z
    <3>1. w - 1 \in 0..(Width - 1) /\ (w - 1) + 1 = w
      BY <1>17, WidthFacts DEF Masks
    <3> QED BY <3>1, BlockSizeAssumption
  <2>3. st[n] \in Nat /\ fh >= u /\ u \in Nat /\ fh \in Nat /\ e + z <= u
    <3> HIDE DEF fh, u
    <3> QED BY <1>8, <1>10, <1>13, <1>15
  <2> HIDE DEF e, u, fh, z, m
  <2> QED BY <1>17, <2>1, <2>2, <2>3
<1> HIDE DEF z, y, c
<1>23. CanFollow(cs, st, c)
  BY <1>7, <1>15, <1>20, <1>22 DEF CanFollow
<1> DEFINE ds == Append(cs, c)
           tt == AppendedStarts(cs, c, st)
<1>24. /\ Laid(ds, tt) /\ Len(ds) = n + 1 /\ ds[n + 1] = c
       /\ tt[n + 2] = e + BlockSize[c.mask] /\ tt[n + 1] = e
       /\ Subnets(ds, n + 1) = Subnets(cs, n) + (IF c.type # "unused" THEN 1 ELSE 0)
  BY <1>7, <1>8, <1>23, LaidAppend
<1> HIDE DEF ds, tt, e
<1>25. tt[n + 2] = e + z /\ Subnets(ds, n + 1) = q /\ q \in Nat
  BY <1>8, <1>20, <1>24 DEF z
<1>26. h # Undefined /\ h \in [next : [base : Nat, mask : Masks], lastBefore : Nat]
  <2>1. e + z \in Addresses /\ LastHost(y) \in Addresses
    BY <1>10, <1>17, <1>18, <1>19 DEF Addresses
  <2> QED BY <1>17, <2>1, GapTyped
<1>27. h.next.base = e + z /\ h.next.mask = w /\ h.lastBefore = LastHost(y)
  OBVIOUS
<1>28. gap' = h
  BY <1>16, <1>19
<1> HIDE DEF h, fh, u
<1>29. GapAt(ds, tt, q, h)
  <2>1. (n + 1) + 1 = n + 2
    OBVIOUS
  <2>2. End(SubnetBlock(q)) <= e + z /\ e + z <= u
    BY <1>9, <1>10, <1>15, <1>17 DEF z
  <2>3. h.lastBefore < e + z /\ e + z <= h.lastBefore + z
    BY <1>17, <1>19, <1>27
  <2>4. ds[n + 1].mask = w
    BY <1>20, <1>24
  <2> QED
    BY <1>0, <1>8, <1>15, <1>19, <1>21, <1>24, <1>25, <1>26, <1>27, <2>1, <2>2, <2>3, <2>4
    DEF GapAt, u, fh, z
<1>30. StandsAt(ds, tt, q, h)
  BY <1>0, <1>8, <1>24, <1>25, <1>26, <1>29 DEF StandsAt
<1> QED BY <1>1, <1>2, <1>16, <1>28, <1>30 DEF Converting, ds

-----------------------------------------------------------------------------
LEMMA ConversionFrame ==
  ASSUME UNCHANGED vars
  PROVE  /\ phase' = phase /\ Tidy' = Tidy
         /\ \A cs, p, g : Converting(cs, p, g)' = Converting(cs, p, g)
<1>1. /\ request' = request /\ phase' = phase /\ out' = out
  BY DEF vars
<1>2. /\ SingleAzLength' = SingleAzLength
      /\ \A p : SubnetBlock(p)' = SubnetBlock(p)
  BY <1>1 DEF SingleAzLength, SubnetBlock
<1>4. GapsEndBlocks' = GapsEndBlocks
  BY <1>2 DEF GapsEndBlocks, GapEndsBlock
<1>5. LegacyAccepted' = LegacyAccepted
  BY <1>1 DEF LegacyAccepted
<1>6. \A cs, st : Laid(cs, st)' = Laid(cs, st)
  BY <1>2 DEF Laid, Starts
<1>7. \A cs, st, p, g : GapAt(cs, st, p, g)' = GapAt(cs, st, p, g)
  BY <1>2 DEF GapAt
<1>8. \A cs, st, p, g : StandsAt(cs, st, p, g)' = StandsAt(cs, st, p, g)
  BY <1>2, <1>6, <1>7 DEF StandsAt
<1>9. \A cs, p, g : Converting(cs, p, g)' = Converting(cs, p, g)
  BY <1>2, <1>8 DEF Converting, Unstarted, Stuck
<1> QED BY <1>1, <1>2, <1>4, <1>5, <1>9 DEF Tidy

(* What the conversion does in a step of its own.                          *)
LEMMA ConversionMoves ==
  ASSUME ConversionInv, UNCHANGED vars,
         phase # "returned" =>
           converted' = converted /\ position' = position /\ gap' = gap,
         phase = "returned" /\ Tidy /\ Converting(converted, position, gap)
           => Converting(converted', position', gap')
  PROVE  ConversionInv'
<1>1. phase' = phase /\ Tidy' = Tidy
  BY ConversionFrame
<1>2. CASE phase = "returned"
  <2> SUFFICES ASSUME Tidy PROVE Converting(converted, position, gap)'
    BY <1>1, <1>2 DEF ConversionInv
  <2>1. Converting(converted', position', gap')
    BY <1>2 DEF ConversionInv
  <2>2. PICK a, b, c : a = converted' /\ b = position' /\ c = gap'
    OBVIOUS
  <2>3. Converting(a, b, c)
    BY <2>1, <2>2
  <2>4. Converting(a, b, c)' = Converting(a, b, c)
    BY ConversionFrame
  <2>5. Converting(a, b, c)'
    BY <2>3, <2>4
  <2> QED BY <2>2, <2>5
<1>3. CASE phase # "returned"
  BY <1>1, <1>3 DEF ConversionInv, Unstarted
<1> QED BY <1>2, <1>3

-----------------------------------------------------------------------------
(* Whatever the layout, the converted list holds the first subnets of it,  *)
(* each once and in order, among specs that are Unused.                    *)
Copied(cs, p) ==
  /\ Subnets(cs, Len(cs)) = p
  /\ \A q \in 1..p :
       \E k \in 1..Len(cs) : cs[k] = ConvertedSubnet(q) /\ Subnets(cs, k) = q
  /\ \A k \in 1..Len(cs) :
       cs[k].type # "unused" =>
         Subnets(cs, k) \in 1..p /\ cs[k] = ConvertedSubnet(Subnets(cs, k))

Copying(cs, p, g) ==
  /\ cs \in Seq(ConvertedSpec) /\ p \in Nat
  /\ Copied(cs, p)
  /\ p > 0 => LegacyAccepted /\ p <= SingleAzLength
  /\ g # Undefined => /\ p \in 1..(SingleAzLength - 1)
                      /\ g.next \in Block
                      /\ NoHostRoute => g.next.mask < Width
  /\ NoHostRoute => \A k \in 1..Len(cs) : cs[k].mask < Width

CopyInv == Copying(converted, position, gap)

LEMMA InList ==
  ASSUME TypeOK
  PROVE  /\ SingleAzLength \in Nat
         /\ \A p \in 1..SingleAzLength :
              p \in DOMAIN out /\ out[p].cidr \in Cidr /\ out[p].type \in PlacedTypes
<1> DEFINE c == request.azCount
           n == Len(out)
<1>1. c \in Nat \ {0} /\ out \in Seq(SubnetOut)
  BY RequestFacts DEF TypeOK
<1>2. n \in Nat
  BY <1>1
<1>3. n % c \in 0..(c - 1) /\ n \div c \in Nat /\ n = c * (n \div c) + (n % c)
  BY <1>1, <1>2, DivisionFacts
<1>4. PICK d \in Nat, r \in Nat : d = n \div c /\ n = c * d + r
  BY <1>1, <1>3
<1>5. d <= c * d
  BY <1>1, <1>4
<1>6. SingleAzLength = d /\ d <= n
  <2>1. SingleAzLength = d
    BY <1>4 DEF SingleAzLength
  <2>2. PICK x \in Nat : x = c * d
    BY <1>1
  <2>3. d <= x /\ n = x + r
    BY <1>4, <1>5, <2>2
  <2> HIDE DEF n
  <2>4. d <= n
    BY <2>3
  <2> QED BY <2>1, <2>4
<1>7. ASSUME NEW p \in 1..d
      PROVE  p \in DOMAIN out /\ out[p].cidr \in Cidr /\ out[p].type \in PlacedTypes
  <2>1. p \in DOMAIN out
    <3>1. p \in 1..n
      <4> HIDE DEF n
      <4> QED BY <1>2, <1>6
    <3> QED BY <1>1, <3>1
  <2>2. out[p] \in SubnetOut
    BY <1>1, <2>1
  <2> QED BY <2>1, <2>2 DEF SubnetOut
<1> QED BY <1>6, <1>7

LEMMA CopiedAppend ==
  ASSUME NEW cs \in Seq(ConvertedSpec), NEW p \in Nat, Copied(cs, p),
         NEW c \in ConvertedSpec, c.type # "unused" => c = ConvertedSubnet(p + 1),
         NEW q, q = p + (IF c.type # "unused" THEN 1 ELSE 0)
  PROVE  Append(cs, c) \in Seq(ConvertedSpec) /\ Copied(Append(cs, c), q)
<1>1. PICK n \in Nat : n = Len(cs)
  OBVIOUS
<1>2. PICK ds : ds = Append(cs, c)
  OBVIOUS
<1>3. /\ ds \in Seq(ConvertedSpec) /\ Len(ds) = n + 1
      /\ \A k \in 1..n : ds[k] = cs[k]
      /\ ds[n + 1] = c
  <2> HIDE DEF ConvertedSpec
  <2> QED BY <1>1, <1>2
<1>4. /\ \A k \in 0..n : Subnets(ds, k) = Subnets(cs, k)
      /\ Subnets(ds, n + 1) = Subnets(cs, n) + (IF c.type # "unused" THEN 1 ELSE 0)
  BY <1>1, <1>2, SubnetsFacts
<1>5. /\ Subnets(cs, n) = p
      /\ \A r \in 1..p :
           \E k \in 1..n : cs[k] = ConvertedSubnet(r) /\ Subnets(cs, k) = r
      /\ \A k \in 1..n :
           cs[k].type # "unused" =>
             Subnets(cs, k) \in 1..p /\ cs[k] = ConvertedSubnet(Subnets(cs, k))
  BY <1>1 DEF Copied
<1>6. Subnets(ds, n + 1) = q /\ q \in Nat /\ p <= q
  BY <1>4, <1>5
<1>7. ASSUME NEW r \in 1..q
      PROVE  \E k \in 1..(n + 1) : ds[k] = ConvertedSubnet(r) /\ Subnets(ds, k) = r
  <2>1. CASE r \in 1..p
    <3>1. PICK k \in 1..n : cs[k] = ConvertedSubnet(r) /\ Subnets(cs, k) = r
      BY <1>5, <2>1
    <3>2. k \in 1..(n + 1) /\ k \in 0..n
      OBVIOUS
    <3>3. ds[k] = ConvertedSubnet(r) /\ Subnets(ds, k) = r
      BY <1>3, <1>4, <3>1, <3>2
    <3> QED BY <3>2, <3>3
  <2>2. CASE r \notin 1..p
    <3>1. r = p + 1 /\ q = p + 1 /\ c.type # "unused" /\ n + 1 \in 1..(n + 1)
      BY <1>7, <2>2
    <3>2. ds[n + 1] = ConvertedSubnet(r) /\ Subnets(ds, n + 1) = r
      BY <1>3, <1>6, <3>1
    <3> QED BY <3>1, <3>2
  <2> QED BY <2>1, <2>2
<1>8. ASSUME NEW k \in 1..(n + 1), ds[k].type # "unused"
      PROVE  Subnets(ds, k) \in 1..q /\ ds[k] = ConvertedSubnet(Subnets(ds, k))
  <2>1. CASE k \in 1..n
    <3>1. ds[k] = cs[k] /\ Subnets(ds, k) = Subnets(cs, k)
      BY <1>3, <1>4, <2>1
    <3>2. Subnets(cs, k) \in 1..p /\ cs[k] = ConvertedSubnet(Subnets(cs, k))
      BY <1>5, <1>8, <2>1, <3>1
    <3>3. 1..p \subseteq 1..q
      BY <1>6
    <3> QED BY <3>1, <3>2, <3>3
  <2>2. CASE k = n + 1
    <3>1. q = p + 1 /\ c = ConvertedSubnet(p + 1)
      BY <1>3, <1>8, <2>2
    <3> QED BY <1>3, <1>6, <2>2, <3>1
  <2> QED BY <2>1, <2>2
<1> QED BY <1>2, <1>3, <1>6, <1>7, <1>8 DEF Copied

LEMMA CopyingEmpty ==
  Copying(<<>>, 0, Undefined) /\ Copying(<<>>, 0, Undefined)'
<1>1. {j \in 1..0 : <<>>[j].type # "unused"} = {}
  OBVIOUS
<1>2. Subnets(<<>>, 0) = 0
  BY <1>1, FS_EmptySet DEF Subnets
<1>3. Len(<<>>) = 0 /\ <<>> \in Seq(ConvertedSpec) /\ 1..0 = {}
  OBVIOUS
<1>4. Copying(<<>>, 0, Undefined)
  BY <1>2, <1>3 DEF Copying, Copied
<1>5. Copying(<<>>, 0, Undefined)'
  BY <1>2, <1>3 DEF Copying, Copied
<1> QED BY <1>4, <1>5

LEMMA CopyFrame ==
  ASSUME UNCHANGED vars
  PROVE  \A cs, p, g : Copying(cs, p, g)' = Copying(cs, p, g)
<1>1. request' = request /\ phase' = phase /\ out' = out
  BY DEF vars
<1>2. /\ SingleAzLength' = SingleAzLength /\ LegacyAccepted' = LegacyAccepted
      /\ NoHostRoute' = NoHostRoute
      /\ \A p : ConvertedSubnet(p)' = ConvertedSubnet(p)
  BY <1>1 DEF SingleAzLength, LegacyAccepted, NoHostRoute, ConvertedSubnet
<1>3. \A cs, p : Copied(cs, p)' = Copied(cs, p)
  BY <1>2 DEF Copied
<1> QED BY <1>2, <1>3 DEF Copying

LEMMA NextBlockTyped ==
  ASSUME NEW b, b.mask \in Masks, End(b) \in Nat
  PROVE  NextBlock(b) \in Block /\ NextBlock(b).mask = b.mask
<1>1. Space \in Nat \ {0}
  BY WidthAssumption, BlockSizeAssumption DEF Space
<1>2. PICK e \in 0..(Space - 1) : e = End(b) % Space
  BY <1>1, DivisionFacts
<1>3. e \in Nat /\ NextBlock(b) = Netmask(e, b.mask)
  BY <1>1, <1>2 DEF NextBlock
<1>4. PICK c : c = Netmask(e, b.mask)
  OBVIOUS
<1>5. /\ c = [base |-> c.base, mask |-> b.mask] /\ c.mask = b.mask
      /\ c.base \in Nat /\ c.base <= e
  BY <1>3, <1>4, NetmaskFacts
<1>6. c.base \in Addresses
  BY <1>1, <1>2, <1>5 DEF Addresses
<1> QED BY <1>3, <1>4, <1>5, <1>6 DEF Block

LEMMA CopyStepInv ==
  ASSUME TypeOK, ConversionInv, CopyInv, [ConversionNext]_conversionVars
  PROVE  CopyInv'
<1> USE DEF CopyInv
<1>1. CASE LegacyStep
  <2>1. Next /\ converted' = converted /\ position' = position /\ gap' = gap
    BY <1>1 DEF LegacyStep
  <2>2. phase # "returned"
    BY <2>1 DEF Next, RefuseSplit, ReturnDefaults, Split, FilterSpec, StartFirstZone,
                RefuseAddressZero, PlaceSubnet, RefuseMask, NextZone
  <2>3. converted = <<>> /\ position = 0 /\ gap = Undefined
    BY <2>2 DEF ConversionInv, Unstarted
  <2>4. converted' = <<>> /\ position' = 0 /\ gap' = Undefined
    BY <2>1, <2>3
  <2> HIDE DEF CopyInv
  <2> QED BY <2>4, CopyingEmpty DEF CopyInv
<1>2. ASSUME UNCHANGED vars, Copying(converted', position', gap') PROVE CopyInv'
  <2>1. PICK a, b, c : a = converted' /\ b = position' /\ c = gap'
    OBVIOUS
  <2>2. Copying(a, b, c)'
    BY <1>2, <2>1, CopyFrame
  <2> QED BY <2>1, <2>2
<1>3. /\ converted \in Seq(ConvertedSpec) /\ position \in Nat
      /\ Copied(converted, position)
      /\ position > 0 => LegacyAccepted /\ position <= SingleAzLength
      /\ gap # Undefined => /\ position \in 1..(SingleAzLength - 1)
                            /\ gap.next \in Block
                            /\ NoHostRoute => gap.next.mask < Width
      /\ NoHostRoute => \A k \in 1..Len(converted) : converted[k].mask < Width
  BY DEF Copying
<1>4. SingleAzLength \in Nat
  BY InList
<1>5. ASSUME NEW c \in ConvertedSpec, converted' = Append(converted, c),
             NoHostRoute => c.mask < Width
      PROVE  NoHostRoute => \A k \in 1..Len(converted') : converted'[k].mask < Width
  <2> HIDE DEF ConvertedSpec
  <2>1. PICK cs \in Seq(ConvertedSpec) : cs = converted
    BY <1>3
  <2>2. PICK ds : ds = Append(cs, c)
    OBVIOUS
  <2>3. /\ Len(ds) = Len(cs) + 1 /\ Len(cs) \in Nat /\ ds[Len(cs) + 1] = c
        /\ \A k \in 1..Len(cs) : ds[k] = cs[k]
    BY <2>2
  <2>4. ASSUME NoHostRoute, NEW k \in 1..Len(ds) PROVE ds[k].mask < Width
    <3>1. CASE k \in 1..Len(cs)
      BY <1>3, <2>1, <2>3, <2>4, <3>1
    <3>2. CASE k = Len(cs) + 1
      BY <1>5, <2>3, <2>4, <3>2
    <3> QED BY <2>3, <3>1, <3>2
  <2> QED BY <1>5, <2>1, <2>2, <2>4
<1>6. CASE OpenGap
  <2>1. /\ position \in 1..(SingleAzLength - 1)
        /\ gap' = [next |-> NextBlock(Lower), lastBefore |-> LastHost(Previous)]
        /\ converted' = converted /\ position' = position /\ UNCHANGED vars
    BY <1>6 DEF OpenGap
  <2>2. position \in 1..SingleAzLength /\ position + 1 \in 1..SingleAzLength
    BY <1>4, <2>1
  <2>3. PICK q \in 1..SingleAzLength : Lower = SubnetBlock(q)
    BY <2>2 DEF Lower, Previous, Upcoming
  <2>4. out[q].cidr \in Cidr /\ q \in DOMAIN out
    BY InList
  <2>5. /\ SubnetBlock(q).mask = out[q].cidr.mask /\ out[q].cidr.mask \in Masks
        /\ End(SubnetBlock(q)) \in Nat
    BY <2>4, BlockFacts DEF SubnetBlock, BlockOf, Netmask
  <2>6. NextBlock(Lower) \in Block /\ NextBlock(Lower).mask = out[q].cidr.mask
    BY <2>3, <2>5, NextBlockTyped
  <2>7. gap'.next = NextBlock(Lower)
    BY <2>1
  <2>8. NoHostRoute => gap'.next.mask < Width
    BY <2>4, <2>6, <2>7 DEF NoHostRoute
  <2>9. Copying(converted', position', gap')
    BY <1>3, <2>1, <2>6, <2>7, <2>8 DEF Copying
  <2> QED BY <1>2, <2>1, <2>9
<1>7. CASE FillGap
  <2> DEFINE y == Widest(gap.next, gap.lastBefore, FirstHost(Upper))
  <2>1. /\ gap # Undefined /\ UNCHANGED vars /\ position' = position
        /\ converted' = Append(converted, Unused(y))
        /\ gap' = [next |-> NextBlock(y), lastBefore |-> LastHost(y)]
    BY <1>7 DEF FillGap
  <2>2. gap.next \in Block /\ position \in 1..(SingleAzLength - 1)
        /\ (NoHostRoute => gap.next.mask < Width)
    BY <1>3, <2>1
  <2>3. PICK e \in Nat, m \in Masks : gap.next = [base |-> e, mask |-> m]
    <3>1. Addresses \subseteq Nat
      BY WidthAssumption, BlockSizeAssumption DEF Addresses, Space
    <3> QED BY <2>2, <3>1 DEF Block
  <2>4. PICK w \in 1..m : y = Netmask(e, w)
    BY <2>3, WidestIsReached
  <2>5. w \in Masks /\ w \in Nat /\ w <= m /\ Width \in Nat /\ m \in Nat
    BY WidthFacts DEF Masks
  <2>6. /\ y.mask = w /\ y.base \in Nat
    BY <2>4, <2>5, NetmaskFacts
  <2>7. End(y) \in Nat
    BY <2>5, <2>6, SizeFacts DEF End, Size
  <2>8. NextBlock(y) \in Block /\ NextBlock(y).mask = w
    BY <2>5, <2>6, <2>7, NextBlockTyped
  <2>9. Unused(y) \in ConvertedSpec /\ Unused(y).type = "unused" /\ Unused(y).mask = w
    BY <2>5, <2>6 DEF Unused, ConvertedSpec, Types
  <2>10. NoHostRoute => w < Width
    <3>1. gap.next.mask = m
      BY <2>3
    <3> QED BY <2>2, <2>5, <3>1
  <2>11. NoHostRoute => \A k \in 1..Len(converted') : converted'[k].mask < Width
    BY <1>5, <2>1, <2>9, <2>10
  <2>12. converted' \in Seq(ConvertedSpec) /\ Copied(converted', position)
    <3>1. position = position + (IF Unused(y).type # "unused" THEN 1 ELSE 0)
      BY <1>3, <2>9
    <3> QED BY <1>3, <2>1, <2>9, <3>1, CopiedAppend
  <2>13. gap'.next = NextBlock(y)
    BY <2>1
  <2> HIDE DEF y
  <2>14. Copying(converted', position', gap')
    BY <1>3, <2>1, <2>2, <2>8, <2>10, <2>11, <2>12, <2>13 DEF Copying
  <2> QED BY <1>2, <2>1, <2>14
<1>8. CASE ConvertSubnet
  <2> DEFINE q == position + 1
             c == ConvertedSubnet(q)
  <2>1. /\ LegacyAccepted /\ position < SingleAzLength /\ gap' = Undefined
        /\ converted' = Append(converted, c) /\ position' = q
        /\ UNCHANGED vars
    BY <1>8 DEF ConvertSubnet
  <2>2. q \in 1..SingleAzLength /\ q \in Nat /\ q <= SingleAzLength
    BY <1>3, <1>4, <2>1
  <2>3. q \in DOMAIN out /\ out[q].cidr \in Cidr /\ out[q].type \in PlacedTypes
    BY <2>2, InList
  <2>4. /\ c \in ConvertedSpec /\ c.type # "unused" /\ c.mask = out[q].cidr.mask
    BY <2>3 DEF ConvertedSubnet, ConvertedSpec, Types, PlacedTypes, Cidr
  <2>5. NoHostRoute => c.mask < Width
    BY <2>3, <2>4 DEF NoHostRoute
  <2>6. NoHostRoute => \A k \in 1..Len(converted') : converted'[k].mask < Width
    BY <1>5, <2>1, <2>4, <2>5
  <2>7. converted' \in Seq(ConvertedSpec) /\ Copied(converted', q)
    <3>1. q = position + (IF c.type # "unused" THEN 1 ELSE 0)
      BY <1>3, <2>4
    <3> QED BY <1>3, <2>1, <2>4, <3>1, CopiedAppend
  <2> HIDE DEF q, c
  <2>8. Copying(converted', position', gap')
    BY <2>1, <2>2, <2>6, <2>7 DEF Copying
  <2> QED BY <1>2, <2>1, <2>8
<1>9. CASE UseAuto \/ AutoStep \/ UNCHANGED conversionVars
  <2>1. UNCHANGED vars /\ converted' = converted /\ position' = position /\ gap' = gap
    BY <1>9 DEF UseAuto, AutoStep, conversionVars
  <2>2. Copying(converted', position', gap')
    BY <2>1
  <2> QED BY <1>2, <2>1, <2>2
<1> QED BY <1>1, <1>6, <1>7, <1>8, <1>9 DEF ConversionNext

LEMMA ConversionStepInv ==
  ASSUME IInv, FirstInv, ConversionInv, CopyInv, [ConversionNext]_conversionVars
  PROVE  ConversionInv'
<1>1. CASE LegacyStep
  <2>1. phase # "returned" /\ converted' = converted /\ position' = position /\ gap' = gap
    <3>1. Next
      BY <1>1 DEF LegacyStep
    <3>2. phase # "returned"
      BY <3>1 DEF Next, RefuseSplit, ReturnDefaults, Split, FilterSpec, StartFirstZone,
                  RefuseAddressZero, PlaceSubnet, RefuseMask, NextZone
    <3> QED BY <1>1, <3>2 DEF LegacyStep
  <2>2. Unstarted(converted, position, gap)'
    BY <2>1 DEF ConversionInv, Unstarted
  <2>3. Converting(converted, position, gap)'
    BY <2>2 DEF Converting
  <2> QED BY <2>2, <2>3 DEF ConversionInv
<1>2. ASSUME phase # "returned"
      PROVE  position = 0 /\ gap = Undefined
  BY <1>2 DEF ConversionInv, Unstarted
<1>3. CASE OpenGap
  <2>1. UNCHANGED vars /\ phase = "returned"
    BY <1>3 DEF OpenGap, LegacyAccepted
  <2> QED BY <1>3, <2>1, GapOpened, ConversionMoves
<1>4. CASE FillGap
  <2>1. UNCHANGED vars /\ phase = "returned"
    BY <1>2, <1>4 DEF FillGap
  <2> QED BY <1>4, <2>1, GapFilled, ConversionMoves
<1>5. CASE ConvertSubnet
  <2>1. UNCHANGED vars /\ phase = "returned"
    BY <1>5 DEF ConvertSubnet, LegacyAccepted
  <2>2. gap # Undefined => gap.next \in Block
    BY DEF CopyInv, Copying
  <2> QED BY <1>5, <2>1, <2>2, SubnetConverted, ConversionMoves
<1>6. CASE UseAuto \/ AutoStep \/ UNCHANGED conversionVars
  <2>1. UNCHANGED vars /\ converted' = converted /\ position' = position /\ gap' = gap
    BY <1>6 DEF UseAuto, AutoStep, conversionVars
  <2>2. Converting(converted, position, gap) => Converting(converted', position', gap')
    BY <2>1
  <2> QED BY <2>1, <2>2, ConversionMoves
<1> QED BY <1>1, <1>3, <1>4, <1>5, <1>6 DEF ConversionNext

LEMMA ConversionIsLegacy ==
  [ConversionNext]_conversionVars => [Next]_vars
<1> SUFFICES ASSUME [ConversionNext]_conversionVars PROVE [Next]_vars
  OBVIOUS
<1>1. CASE LegacyStep
  BY <1>1 DEF LegacyStep
<1>2. CASE OpenGap \/ FillGap \/ ConvertSubnet
  BY <1>2 DEF OpenGap, FillGap, ConvertSubnet
<1>3. CASE UseAuto \/ AutoStep \/ UNCHANGED conversionVars
  BY <1>3 DEF UseAuto, AutoStep, conversionVars
<1> QED BY <1>1, <1>2, <1>3 DEF ConversionNext

(* What has been converted fills the gaps.                                 *)
LEMMA ConvertedFills ==
  ASSUME IInv, FirstInv, ConversionInv
  PROVE  GapsAreFilled
<1> SUFFICES ASSUME Regular, GapsEndBlocks, LegacyAccepted
             PROVE  GapsFillExactly /\ GapsAreWidest
  BY DEF GapsAreFilled
<1>1. Converting(converted, position, gap) /\ ~Stuck(position)
  <2>1. Tidy /\ \A p \in 1..SingleAzLength : SubnetBlock(p).base < Space
    BY RegularIsTidy
  <2>2. SingleAzLength \in Nat
    BY <2>1, TidyFacts
  <2>3. ASSUME Stuck(position) PROVE FALSE
    <3>1. position + 1 \in 1..SingleAzLength
      BY <2>2, <2>3 DEF Stuck
    <3>2. SubnetBlock(position + 1).base \in Nat /\ Space \in Nat
      BY <2>1, <3>1, TidyFacts, WidthAssumption, BlockSizeAssumption DEF Space
    <3> QED BY <2>1, <2>3, <3>1, <3>2 DEF Stuck
  <2> QED BY <2>1, <2>3 DEF ConversionInv, LegacyAccepted
<1>2. CASE converted = <<>>
  <2>1. DOMAIN converted = {} /\ 2..Len(converted) = {}
    BY <1>2
  <2> QED BY <2>1 DEF GapsFillExactly, GapsAreWidest
<1>3. ASSUME NEW st, Laid(converted, st)
      PROVE  GapsFillExactly /\ GapsAreWidest
  <2>1. converted \in Seq(ConvertedSpec) /\ Starts(converted, st)
    BY <1>3 DEF Laid
  <2>2. \A k \in 1..Len(converted) : StartOf(k) = st[k]
    BY <2>1, StartOfIs
  <2>3. DOMAIN converted = 1..Len(converted) /\ Len(converted) \in Nat
    BY <2>1
  <2>4. \A k : Cardinality({j \in 1..k : ~IsUnused(j)}) = Subnets(converted, k)
    BY DEF Subnets, IsUnused
  <2>5. GapsFillExactly
    BY <1>3, <2>2, <2>3, <2>4 DEF GapsFillExactly, IsUnused, Laid
  <2>6. GapsAreWidest
    <3> SUFFICES ASSUME NEW k \in 2..Len(converted), IsUnused(k - 1), IsUnused(k),
                        converted[k - 1].mask = converted[k].mask
                 PROVE  StartOf(k - 1) % BlockSize[converted[k].mask - 1] # 0
      BY DEF GapsAreWidest
    <3>1. k - 1 \in 1..Len(converted)
      BY <2>3
    <3>2. st[k - 1] % BlockSize[converted[k].mask - 1] # 0
      BY <1>3 DEF Laid, IsUnused
    <3>3. StartOf(k - 1) = st[k - 1]
      BY <2>2, <3>1
    <3> QED BY <3>2, <3>3
  <2> QED BY <2>5, <2>6
<1> QED BY <1>1, <1>2, <1>3 DEF Converting, Unstarted, StandsAt

-----------------------------------------------------------------------------
(* The layouts Auto takes: Auto refuses two specs of one type, so that a   *)
(* zone has at most one subnet of each, and each is written where the one  *)
(* before ends or, if that is not aligned, at the next block of its size.  *)
TypesDiffer ==
  \A i, j \in 1..Len(Ordered) : Ordered[i].type = Ordered[j].type => i = j

LEMMA FollowsClose ==
  ASSUME NEW c \in Cidr, NEW m \in Masks, NEW d, NEW x,
         d = [addr |-> End(BlockOf(c)), mask |-> m],
         x = IF IsOverlapping(c, d) THEN NextBlockAfter(c, m) ELSE d
  PROVE  /\ x.addr \in Nat /\ x.addr % BlockSize[m] = 0
         /\ End(BlockOf(c)) <= x.addr /\ x.addr < End(BlockOf(c)) + BlockSize[m]
<1>1. PICK e \in Nat : e = End(BlockOf(c)) /\ BlockOf(c).base < e
  BY BlockFacts
<1>2. PICK z \in Nat \ {0} : z = BlockSize[m]
  BY SizeFacts
<1>3. CASE IsOverlapping(c, d)
  <2>1. PICK b \in Nat : /\ b % z = 0 /\ b <= e - 1 /\ e - 1 < b + z
                         /\ NextBlockAfter(c, m).addr = b + z
    BY <1>1, <1>2, MovedFacts
  <2>2. (b + z) % z = 0
    <3>1. z % z = 0
      OBVIOUS
    <3> QED BY <2>1, <3>1, RemainderOfSum
  <2>3. x.addr = b + z
    BY <1>3, <2>1
  <2> QED BY <1>1, <1>2, <2>1, <2>2, <2>3
<1>4. CASE ~IsOverlapping(c, d)
  <2>1. d \in Cidr /\ d.addr = e /\ d.mask = m /\ x = d
    BY <1>1, <1>4 DEF Cidr
  <2>2. /\ BlockOf(d).base = e - (e % z) /\ BlockOf(d).base \in Nat
        /\ End(BlockOf(d)) \in Nat /\ e < End(BlockOf(d))
    BY <1>2, <2>1, BlockFacts
  <2>3. BlockOf(c).base \in Nat
    BY BlockFacts
  <2>4. e % z \in 0..(z - 1)
    BY DivisionFacts
  <2>5. e <= BlockOf(d).base \/ End(BlockOf(d)) <= BlockOf(c).base
    BY <1>1, <1>4 DEF IsOverlapping, Disjoint
  <2>6. e % z = 0
    BY <1>1, <2>2, <2>3, <2>4, <2>5
  <2> QED BY <1>1, <1>2, <2>1, <2>6
<1> QED BY <1>3, <1>4

LEMMA DistinctFollows ==
  ASSUME FilteredByType, TypesDiffer, NEW h \in 2..Len(Ordered)
  PROVE  PrecedingAt(h) # {} /\ LastOf(PrecedingAt(h)) = h - 1 /\ CountAt(h) = 0
<1>1. PICK n \in Nat, v \in Nat, u \in Nat :
        n = Len(Ordered) /\ v = Privates /\ u = Publics
  BY OrderedFacts
<1>2. /\ v + u <= n
      /\ \A q \in 1..n : /\ Ordered[q].type \in PlacedTypes
                         /\ Ordered[q].type = "private" <=> q <= v
                         /\ Ordered[q].type = "public" <=> (v < q /\ q <= v + u)
  BY <1>1, OrderedFacts
<1>3. h \in 2..n /\ h \in 1..Len(Ordered) /\ 1 \in 1..n /\ 2 \in 1..n
  BY <1>1
<1>4. \A i, j \in 1..n : Ordered[i].type = Ordered[j].type => i = j
  BY <1>1 DEF TypesDiffer
<1>5. v <= 1
  <2> SUFFICES ASSUME v > 1 PROVE FALSE
    OBVIOUS
  <2>1. Ordered[1].type = "private" /\ Ordered[2].type = "private"
    BY <1>2, <1>3
  <2>2. 1 = 2
    BY <1>3, <1>4, <2>1
  <2> QED BY <2>2
<1>6. u <= 1
  <2> SUFFICES ASSUME u > 1 PROVE FALSE
    OBVIOUS
  <2>1. v + 1 \in 1..n /\ v + 2 \in 1..n
    BY <1>2
  <2>2. Ordered[v + 1].type = "public" /\ Ordered[v + 2].type = "public"
    BY <1>2, <2>1
  <2>3. v + 1 = v + 2
    BY <1>4, <2>1, <2>2
  <2> QED BY <2>3
<1>7. h <= v + u + 1
  <2> SUFFICES ASSUME h > v + u + 1 PROVE FALSE
    BY <1>3
  <2>1. h - 1 \in 1..n /\ h \in 1..n
    BY <1>3
  <2>2. Ordered[h].type = "isolated" /\ Ordered[h - 1].type = "isolated"
    BY <1>2, <2>1 DEF PlacedTypes
  <2>3. h = h - 1
    BY <1>4, <2>1, <2>2
  <2> QED BY <1>3, <2>3
<1>8. PrecedingAt(h) = IF h <= v THEN {}
                       ELSE IF h <= v + u \/ u = 0 THEN 1..v
                            ELSE (v + 1)..(v + u)
  BY <1>1, <1>3, PrecedingFacts
<1>9. ASSUME NEW k \in Nat \ {0} PROVE k..k # {} /\ LastOf(k..k) = k
  <2>1. k \in Nat /\ k <= k /\ k > 0 /\ k \in k..k
    OBVIOUS
  <2>2. LastOf(k..k) = k
    BY <2>1, LastOfRange
  <2> QED BY <2>1, <2>2
<1>10. PrecedingAt(h) # {} /\ LastOf(PrecedingAt(h)) = h - 1
  <2>1. CASE u = 0 \/ h <= v + u
    <3>1. v = 1 /\ h = 2
      BY <1>3, <1>5, <1>6, <1>7, <2>1
    <3>2. PrecedingAt(h) = 1..1
      BY <1>8, <2>1, <3>1
    <3> QED BY <1>9, <3>1, <3>2
  <2>2. CASE ~(u = 0 \/ h <= v + u)
    <3>1. u = 1 /\ h = v + 2 /\ v + 1 \in Nat /\ v + 1 > 0
      BY <1>3, <1>6, <1>7, <2>2
    <3>2. PrecedingAt(h) = (v + 1)..(v + 1)
      BY <1>8, <2>2, <3>1
    <3>3. PICK k \in Nat \ {0} : k = v + 1
      OBVIOUS
    <3> QED BY <1>9, <3>1, <3>2, <3>3
  <2> QED BY <2>1, <2>2
<1>11. CountAt(h) \in Nat /\ LastOf(PrecedingAt(h)) + CountAt(h) = h - 1
  BY <1>3, <1>10, CountFacts
<1> QED BY <1>3, <1>10, <1>11

LEMMA DistinctStep ==
  ASSUME Placing, TypesDiffer, NEW i \in Nat \ {0}, NEW s \in Seq(SubnetOut),
         ZoneOK(i, s), NEW h \in 1..Len(s),
         h > 1 => s[h - 1].cidr.addr % BlockSize[s[h - 1].cidr.mask] = 0
  PROVE  LET m == s[h].cidr.mask
             e == End(BlockOf(CurrentAt(i, s, h)))
         IN  /\ m \in Masks /\ e \in Nat
             /\ s[h].cidr.addr \in Nat /\ s[h].cidr.addr % BlockSize[m] = 0
             /\ e <= s[h].cidr.addr /\ s[h].cidr.addr < e + BlockSize[m]
<1>1. Len(s) \in Nat /\ FilteredByType
  BY DEF Placing
<1>2. /\ h \in 1..Len(Ordered) /\ MaskOf(Ordered[h]) <= Width
      /\ s[h].cidr = ChosenAt(i, s, h) /\ s[h].cidr.mask = MaskOf(Ordered[h])
  BY ZoneFacts
<1>3. h <= Len(s) + 1
  BY <1>1
<1>4. /\ MaskOf(Ordered[h]) \in Masks /\ CurrentAt(i, s, h) \in Cidr
      /\ CandidateAt(i, s, h).mask = MaskOf(Ordered[h])
      /\ CandidateAt(i, s, h).addr =
           SplitAt(i, s, h) + BlockSize[MaskOf(Ordered[h])] * CountAt(h)
  BY <1>2, <1>3, ChosenFacts
<1>5. PICK m \in Masks, c \in Cidr : m = MaskOf(Ordered[h]) /\ c = CurrentAt(i, s, h)
  BY <1>4
<1>6. End(BlockOf(c)) \in Nat
  BY BlockFacts
<1>7. CountAt(h) = 0 /\ SplitAt(i, s, h) = End(BlockOf(c))
  <2>1. CASE h = 1
    <3>1. Before(h, "private") = {} /\ Before(h, "public") = {}
          /\ Before(h, Ordered[h].type) = {}
      BY <2>1 DEF Before
    <3>2. PrecedingAt(h) = {}
      BY <3>1 DEF PrecedingAt
    <3>3. CountAt(h) = 0
      BY <3>1, FS_EmptySet DEF CountAt
    <3>4. c = BeforeSlice(i)
      BY <1>5, <2>1 DEF CurrentAt
    <3>5. End(BlockOf(c)) = AzBase(i)
      BY <3>4, BeforeSliceFacts
    <3> QED BY <3>2, <3>3, <3>5 DEF SplitAt
  <2>2. CASE h # 1
    <3>1. h \in 2..Len(Ordered) /\ h - 1 \in 1..Len(s) /\ h > 1
      BY <1>1, <1>2, <2>2
    <3>2. PrecedingAt(h) # {} /\ LastOf(PrecedingAt(h)) = h - 1 /\ CountAt(h) = 0
      BY <1>1, <3>1, DistinctFollows
    <3>3. c = s[h - 1].cidr /\ c \in Cidr
      BY <1>5, <2>2 DEF CurrentAt
    <3>4. SplitAt(i, s, h) = After(s[h - 1])
      BY <3>2 DEF SplitAt
    <3>5. End(BlockOf(c)) = c.addr + BlockSize[c.mask]
      BY <3>1, <3>3, AlignedBlock
    <3> QED BY <3>2, <3>3, <3>4, <3>5 DEF After
  <2> QED BY <2>1, <2>2
<1>8. CandidateAt(i, s, h) = [addr |-> End(BlockOf(c)), mask |-> m]
  <2>1. PICK z \in Nat : z = BlockSize[m]
    BY SizeFacts
  <2>2. CandidateAt(i, s, h) = [addr |-> SplitAt(i, s, h) + z * CountAt(h), mask |-> m]
    BY <1>5, <2>1 DEF CandidateAt, CidrSubnetV4
  <2>3. z * CountAt(h) = 0
    BY <1>7
  <2> QED BY <1>6, <1>7, <2>2, <2>3
<1>9. ChosenAt(i, s, h) = IF IsOverlapping(c, CandidateAt(i, s, h))
                          THEN NextBlockAfter(c, m) ELSE CandidateAt(i, s, h)
  BY <1>5 DEF ChosenAt
<1> QED BY <1>2, <1>5, <1>6, <1>8, <1>9, FollowsClose

LEMMA DistinctLayout ==
  ASSUME Placing, TypesDiffer, NEW i \in Nat \ {0}, NEW s \in Seq(SubnetOut),
         ZoneOK(i, s)
  PROVE  \A h \in 1..Len(s) :
           LET m == s[h].cidr.mask
               e == End(BlockOf(CurrentAt(i, s, h)))
           IN  /\ m \in Masks /\ e \in Nat
               /\ s[h].cidr.addr \in Nat /\ s[h].cidr.addr % BlockSize[m] = 0
               /\ e <= s[h].cidr.addr /\ s[h].cidr.addr < e + BlockSize[m]
<1> DEFINE Aligned(h) == s[h].cidr.addr % BlockSize[s[h].cidr.mask] = 0
           Bad == {h \in 1..Len(s) : ~Aligned(h)}
<1>1. Len(s) \in Nat
  OBVIOUS
<1>2. ASSUME NEW h \in 1..Len(s), h > 1 => Aligned(h - 1) PROVE Aligned(h)
  BY <1>2, DistinctStep
<1> HIDE DEF Aligned
<1>3. Bad = {}
  <2> SUFFICES ASSUME Bad # {} PROVE FALSE
    OBVIOUS
  <2>1. Bad \in SUBSET Nat
    BY <1>1
  <2>2. PICK h \in Bad : \A k \in Bad : h <= k
    BY <2>1, LeastFacts
  <2>3. h \in 1..Len(s) /\ ~Aligned(h)
    OBVIOUS
  <2>4. ASSUME h > 1 PROVE Aligned(h - 1)
    <3>1. h - 1 \in 1..Len(s) /\ h - 1 < h
      BY <1>1, <2>3, <2>4
    <3>2. h - 1 \notin Bad
      BY <2>2, <3>1
    <3> QED BY <3>1, <3>2
  <2> QED BY <1>2, <2>3, <2>4
<1>4. ASSUME NEW h \in 1..Len(s), h > 1 PROVE Aligned(h - 1)
  <2>1. h - 1 \in 1..Len(s)
    BY <1>1, <1>4
  <2> QED BY <1>3, <2>1
<1> SUFFICES ASSUME NEW h \in 1..Len(s)
             PROVE  LET m == s[h].cidr.mask
                        e == End(BlockOf(CurrentAt(i, s, h)))
                    IN  /\ m \in Masks /\ e \in Nat
                        /\ s[h].cidr.addr \in Nat /\ s[h].cidr.addr % BlockSize[m] = 0
                        /\ e <= s[h].cidr.addr /\ s[h].cidr.addr < e + BlockSize[m]
  OBVIOUS
<1>5. h > 1 => s[h - 1].cidr.addr % BlockSize[s[h - 1].cidr.mask] = 0
  BY <1>4 DEF Aligned
<1> QED BY <1>5, DistinctStep

LEMMA ConvertedDiffers ==
  ASSUME IInv, FirstInv, CopyInv, LegacyAccepted, request.specs # Undefined,
         position = SingleAzLength, NamesAreUnique
  PROVE  TypesDiffer
<1>1. phase = "returned"
  BY DEF LegacyAccepted
<1>2. /\ SingleAzLength = Len(Ordered) /\ Placing /\ ZoneOK(1, FirstZone)
      /\ FirstZone \in Seq(SubnetOut) /\ Len(FirstZone) = SingleAzLength
      /\ \A p \in 1..SingleAzLength : FirstZone[p] = out[p]
  BY <1>1, FirstZoneFacts
<1>3. ASSUME NEW p \in 1..Len(Ordered)
      PROVE  \E k \in DOMAIN converted :
               /\ converted[k].type = Ordered[p].type
               /\ Subnets(converted, k) = p
  <2>1. /\ converted \in Seq(ConvertedSpec)
        /\ \A q \in 1..position :
             \E k \in 1..Len(converted) :
               converted[k] = ConvertedSubnet(q) /\ Subnets(converted, k) = q
    BY DEF CopyInv, Copying, Copied
  <2>2. PICK k \in 1..Len(converted) :
          converted[k] = ConvertedSubnet(p) /\ Subnets(converted, k) = p
    BY <1>2, <2>1
  <2>3. k \in DOMAIN converted
    BY <2>1
  <2>4. FirstZone[p].type = Ordered[p].type
    BY <1>2, ZoneFacts
  <2>5. converted[k].type = out[p].type
    BY <2>2 DEF ConvertedSubnet
  <2> QED BY <1>2, <2>2, <2>3, <2>4, <2>5
<1> SUFFICES ASSUME NEW i \in 1..Len(Ordered), NEW j \in 1..Len(Ordered),
                    Ordered[i].type = Ordered[j].type
             PROVE  i = j
  BY DEF TypesDiffer
<1>4. PICK k \in DOMAIN converted :
        converted[k].type = Ordered[i].type /\ Subnets(converted, k) = i
  BY <1>3
<1>5. PICK l \in DOMAIN converted :
        converted[l].type = Ordered[j].type /\ Subnets(converted, l) = j
  BY <1>3
<1>6. k = l
  BY <1>4, <1>5 DEF NamesAreUnique
<1> QED BY <1>4, <1>5, <1>6

LEMMA DistinctZone ==
  ASSUME IInv, FirstInv, TypesDiffer, LegacyAccepted, request.specs # Undefined
  PROVE  /\ GapsEndBlocks
         /\ \A p \in 1..SingleAzLength : SubnetBlock(p).base = out[p].cidr.addr
         /\ \A p \in 1..(SingleAzLength - 1) : out[p].cidr.addr < out[p + 1].cidr.addr
         /\ SingleAzLength > 0 /\ Fitting => SubnetBlock(1).base = AzBase(1)
<1>1. phase = "returned"
  BY DEF LegacyAccepted
<1>2. PICK n \in Nat : n = SingleAzLength
  BY <1>1, FirstZoneFacts
<1>3. /\ n = Len(Ordered) /\ Placing /\ ZoneOK(1, FirstZone)
      /\ FirstZone \in Seq(SubnetOut) /\ Len(FirstZone) = n
      /\ \A p \in 1..n : FirstZone[p] = out[p] /\ out[p] \in SubnetOut
  BY <1>1, <1>2, FirstZoneFacts
<1>4. ASSUME NEW p \in 1..n
      PROVE  LET m == out[p].cidr.mask
                 e == End(BlockOf(CurrentAt(1, FirstZone, p)))
             IN  /\ m \in Masks /\ e \in Nat /\ out[p].cidr \in Cidr
                 /\ out[p].cidr.addr \in Nat /\ out[p].cidr.addr % BlockSize[m] = 0
                 /\ e <= out[p].cidr.addr /\ out[p].cidr.addr < e + BlockSize[m]
                 /\ SubnetBlock(p).base = out[p].cidr.addr
                 /\ End(SubnetBlock(p)) = out[p].cidr.addr + BlockSize[m]
                 /\ SubnetBlock(p).mask = m
  <2>1. /\ out[p].cidr.mask \in Masks
        /\ End(BlockOf(CurrentAt(1, FirstZone, p))) \in Nat
        /\ out[p].cidr.addr \in Nat /\ out[p].cidr.addr % BlockSize[out[p].cidr.mask] = 0
        /\ End(BlockOf(CurrentAt(1, FirstZone, p))) <= out[p].cidr.addr
        /\ out[p].cidr.addr
             < End(BlockOf(CurrentAt(1, FirstZone, p))) + BlockSize[out[p].cidr.mask]
    BY <1>3, DistinctLayout
  <2>2. out[p].cidr \in Cidr
    BY <1>3 DEF SubnetOut
  <2>3. /\ SubnetBlock(p).base = out[p].cidr.addr
        /\ End(SubnetBlock(p)) = out[p].cidr.addr + BlockSize[out[p].cidr.mask]
    BY <2>1, <2>2, AlignedBlock DEF SubnetBlock
  <2>4. SubnetBlock(p).mask = out[p].cidr.mask
    BY DEF SubnetBlock, BlockOf, Netmask
  <2> QED BY <2>1, <2>2, <2>3, <2>4
<1>5. ASSUME NEW p \in 1..(n - 1)
      PROVE  out[p].cidr.addr < out[p + 1].cidr.addr /\ GapEndsBlock(p)
  <2>1. p \in 1..n /\ p + 1 \in 1..n /\ p + 1 # 1 /\ (p + 1) - 1 = p
    OBVIOUS
  <2>2. CurrentAt(1, FirstZone, p + 1) = out[p].cidr
    BY <1>3, <2>1 DEF CurrentAt
  <2> DEFINE e == End(SubnetBlock(p))
             a == out[p + 1].cidr.addr
             m == out[p + 1].cidr.mask
  <2>3. e = End(BlockOf(out[p].cidr))
    BY DEF SubnetBlock
  <2>4. /\ e \in Nat /\ a \in Nat /\ m \in Masks /\ e <= a /\ a < e + BlockSize[m]
        /\ a % BlockSize[m] = 0 /\ SubnetBlock(p + 1).base = a
    BY <1>4, <2>1, <2>2, <2>3
  <2>5. out[p].cidr.addr < e
    <3>1. /\ e = out[p].cidr.addr + BlockSize[out[p].cidr.mask]
          /\ out[p].cidr.addr \in Nat /\ out[p].cidr.mask \in Masks
      BY <1>4, <2>1
    <3>2. BlockSize[out[p].cidr.mask] \in Nat \ {0}
      BY <3>1, SizeFacts
    <3> QED BY <3>1, <3>2
  <2>6. BlockSize[m] \in Nat
    BY <2>4, SizeFacts
  <2>7. GapEndsBlock(p)
    <3>1. a - e <= BlockSize[m]
      <4> HIDE DEF a, e, m
      <4> QED BY <2>4, <2>6
    <3> QED BY <2>4, <3>1 DEF GapEndsBlock
  <2>8. out[p].cidr.addr < a
    <3>1. out[p].cidr.addr \in Nat
      BY <1>4, <2>1
    <3> HIDE DEF a, e
    <3> QED BY <2>4, <2>5, <3>1
  <2> QED BY <2>7, <2>8
<1>6. ASSUME n > 0, Fitting PROVE SubnetBlock(1).base = AzBase(1)
  <2>1. 1 \in 1..n
    BY <1>6
  <2> DEFINE a == out[1].cidr.addr
             m == out[1].cidr.mask
             e == AzBase(1)
             z == BlockSize[m]
  <2>2. CurrentAt(1, FirstZone, 1) = BeforeSlice(1)
    BY DEF CurrentAt
  <2>3. End(BlockOf(BeforeSlice(1))) = e
    BY <1>3, BeforeSliceFacts
  <2>4. /\ m \in Masks /\ e \in Nat /\ a \in Nat /\ a % z = 0 /\ e <= a /\ a < e + z
        /\ SubnetBlock(1).base = a
    BY <1>4, <2>1, <2>2, <2>3
  <2>5. request \in Requests /\ AzMask <= Width
    BY <1>3 DEF Placing
  <2>6. /\ AzMask \in Masks /\ BlockSize[AzMask] \in Nat \ {0}
        /\ e % BlockSize[AzMask] = 0
    <3>1. 1 \in Nat \ {0}
      OBVIOUS
    <3> QED BY <2>5, <3>1, SliceFacts
  <2>7. m >= AzMask
    <3>1. FirstZone[1].cidr.mask = MaskOf(Ordered[1]) /\ 1 \in 1..Len(FirstZone)
      BY <1>3, <2>1, ZoneFacts
    <3>2. 1 \in DOMAIN Ordered
      <4>1. FilteredByType
        BY <1>3 DEF Placing
      <4>2. Ordered \in Seq(LegacySpec)
        BY <4>1, OrderedFacts
      <4> QED BY <1>3, <2>1, <4>2
    <3> QED BY <1>3, <1>6, <2>1, <3>1, <3>2 DEF Fitting
  <2>8. z \in Nat \ {0} /\ BlockSize[AzMask] % z = 0
    BY <2>4, <2>6, <2>7, SizeFacts, BlockSizeAssumption
  <2> HIDE DEF a, e, z, m
  <2>9. e % z = 0
    BY <2>4, <2>6, <2>8, MultipleOfMultiple
  <2>10. a = e
    <3> SUFFICES ASSUME e < a PROVE FALSE
      BY <2>4
    <3>1. e + z <= a
      BY <2>4, <2>8, <2>9, MultiplesApart
    <3> QED BY <2>4, <2>8, <3>1
  <2> QED BY <2>4, <2>10 DEF a, e
<1> QED BY <1>2, <1>4, <1>5, <1>6 DEF GapsEndBlocks

-----------------------------------------------------------------------------
(* The number of a zone's h-th subnet in a list zone by zone.              *)
LEMMA ZoneSlot ==
  ASSUME NEW c \in Nat, NEW n \in Nat, NEW a \in 1..c, NEW h \in 1..n,
         NEW p, p = (a - 1) * n + h
  PROVE  /\ p \in 1..(c * n)
         /\ (p - 1) \div n = a - 1 /\ (p - 1) % n = h - 1
         /\ a > 1 => /\ a - 1 \in 1..c
                     /\ p - n = ((a - 1) - 1) * n + h
                     /\ p - n \in 1..((c - 1) * n)
<1>1. n \in Nat \ {0} /\ a - 1 \in Nat /\ h - 1 \in 0..(n - 1)
  OBVIOUS
<1>2. PICK b \in Nat : b = a - 1
  BY <1>1
<1>3. PICK x \in Nat : x = n * b
  BY <1>1
<1>4. (a - 1) * n = x
  BY <1>1, <1>2, <1>3
<1>5. p = x + h /\ p - 1 = n * b + (h - 1) /\ p - 1 \in Nat
  BY <1>3, <1>4
<1>6. (p - 1) % n = h - 1
  BY <1>1, <1>5, RemainderIsUnique
<1>7. (p - 1) \div n = b
  <2>1. PICK d \in Nat : d = (p - 1) \div n /\ p - 1 = n * d + ((p - 1) % n)
    BY <1>1, <1>5, DivisionFacts
  <2>2. n * d = n * b
    BY <1>1, <1>5, <1>6, <2>1
  <2>3. d = b
    <3>1. ~(d < b)
      <4> SUFFICES ASSUME d < b PROVE FALSE
        OBVIOUS
      <4>1. n * (d + 1) <= n * b /\ n * (d + 1) = n * d + n
        BY <1>1
      <4> QED BY <1>1, <2>2, <4>1
    <3>2. ~(b < d)
      <4> SUFFICES ASSUME b < d PROVE FALSE
        OBVIOUS
      <4>1. n * (b + 1) <= n * d /\ n * (b + 1) = n * b + n
        BY <1>1
      <4> QED BY <1>1, <2>2, <4>1
    <3> QED BY <3>1, <3>2
  <2> QED BY <2>1, <2>3
<1>8. x + n <= c * n
  <2>1. (b + 1) * n <= c * n
    BY <1>1, <1>2
  <2>2. (b + 1) * n = x + n
    BY <1>1, <1>3
  <2> QED BY <2>1, <2>2
<1>9. p \in 1..(c * n)
  <2>1. PICK y \in Nat : y = c * n
    OBVIOUS
  <2> QED BY <1>1, <1>5, <1>8, <2>1
<1>10. ASSUME a > 1
       PROVE  /\ a - 1 \in 1..c
              /\ p - n = ((a - 1) - 1) * n + h
              /\ p - n \in 1..((c - 1) * n)
  <2>1. PICK f \in Nat : f = b - 1
    BY <1>2, <1>10
  <2>2. PICK y \in Nat : y = f * n
    OBVIOUS
  <2>3. x = y + n
    BY <1>3, <2>1, <2>2
  <2>4. c - 1 \in Nat /\ (c - 1) * n = c * n - n
    OBVIOUS
  <2>5. PICK z \in Nat : z = c * n
    OBVIOUS
  <2>6. p - n = y + h /\ (a - 1) - 1 = f /\ y + h <= z - n /\ y + h >= 1
    BY <1>2, <1>5, <1>8, <2>1, <2>3, <2>5
  <2> QED BY <2>2, <2>4, <2>5, <2>6
<1> QED BY <1>2, <1>6, <1>7, <1>9, <1>10

(* Every zone repeats the first, as far behind as its slice is.            *)
LEMMA ZonesRepeat ==
  ASSUME IInv, FirstInv, phase = "returned", request.specs # Undefined, Fitting,
         NEW a \in 1..request.azCount, NEW h \in 1..SingleAzLength
  PROVE  LET p == (a - 1) * SingleAzLength + h
         IN  /\ p \in 1..Len(out) /\ h \in 1..Len(out)
             /\ out[p].az = a /\ out[p].type = out[h].type
             /\ out[h].cidr \in Cidr /\ out[p].cidr \in Cidr
             /\ out[p].cidr.mask = out[h].cidr.mask
             /\ SubnetBlock(p).base - AzBase(a) = SubnetBlock(h).base - AzBase(1)
<1>1. PICK n \in Nat : n = SingleAzLength
  BY FirstZoneFacts
<1>2. /\ n = Len(Ordered) /\ Placing /\ ZoneOK(1, FirstZone)
      /\ FirstZone \in Seq(SubnetOut) /\ Len(FirstZone) = n
      /\ n <= Len(out) /\ Len(out) \in Nat /\ Len(out) = request.azCount * n
      /\ DOMAIN out = 1..Len(out)
      /\ \A p \in 1..n : FirstZone[p] = out[p] /\ out[p] \in SubnetOut /\ out[p].az = 1
  BY <1>1, FirstZoneFacts
<1>3. PICK c \in Nat \ {0} : c = request.azCount
  BY <1>2, RequestFacts DEF Placing
<1>4. TypeOK /\ request \in Requests /\ AzMask <= Width /\ FilteredByType
  BY <1>2 DEF IInv, Placing
<1>5. \A p \in 1..((c - 1) * n) : out[p + n] = InNextZone(out[p])
  <2>1. OutInv /\ StepInv
    BY DEF IInv
  <2>2. Done > 0
    <3>1. zone \in Nat \ {0}
      BY <1>3, <1>4 DEF TypeOK
    <3> QED BY <3>1 DEF Done
  <2>3. NextIsAlike
    BY <2>1, <2>2 DEF OutInv
  <2>4. LastStart = (c - 1) * n
    <3>1. (c - 1) * n = c * n - n
      OBVIOUS
    <3> QED BY <1>1, <1>2, <1>3, <3>1 DEF LastStart
  <2>5. PICK x \in Nat : x = (c - 1) * n /\ x <= Len(out)
    <3>1. (c - 1) * n = c * n - n /\ (c - 1) * n \in Nat
      OBVIOUS
    <3>2. PICK y \in Nat : y = c * n
      OBVIOUS
    <3> QED BY <1>2, <1>3, <3>1, <3>2
  <2>6. \A p \in 1..x : p \in DOMAIN out /\ p <= LastStart
    BY <1>2, <2>4, <2>5
  <2> QED BY <1>2, <2>3, <2>5, <2>6 DEF NextIsAlike
<1> DEFINE Alike(b, g) ==
             LET p == (b - 1) * n + g
             IN  /\ p \in 1..Len(out) /\ out[p].az = b /\ out[p].type = out[g].type
                 /\ out[p].cidr \in Cidr /\ out[p].cidr.mask = out[g].cidr.mask
                 /\ SubnetBlock(p).base - AzBase(b) = SubnetBlock(g).base - AzBase(1)
           Bad == {b \in 1..c : ~Alike(b, h)}
<1>6. h \in 1..n /\ h \in 1..Len(out) /\ out[h].cidr \in Cidr
  <2>1. h \in 1..n
    BY <1>1
  <2>2. out[h] \in SubnetOut
    BY <1>2, <2>1
  <2> QED BY <1>2, <2>1, <2>2 DEF SubnetOut
<1>7. out[h].cidr.mask >= AzMask
  <2>1. FirstZone[h].cidr.mask = MaskOf(Ordered[h])
    BY <1>2, <1>6, ZoneFacts
  <2>2. h \in DOMAIN Ordered
    <3>1. Ordered \in Seq(LegacySpec)
      BY <1>4, OrderedFacts
    <3> QED BY <1>2, <1>6, <3>1
  <2> QED BY <1>2, <1>6, <2>1, <2>2 DEF Fitting
<1>8. Alike(1, h)
  <2>1. (1 - 1) * n + h = h
    BY <1>6
  <2>2. SubnetBlock(h).base \in Nat /\ AzBase(1) \in Nat
    <3>1. 1 \in Nat \ {0}
      OBVIOUS
    <3> QED BY <1>4, <1>6, <3>1, BlockFacts, SliceFacts DEF SubnetBlock
  <2> QED BY <1>2, <1>6, <2>1, <2>2
<1>9. ASSUME NEW b \in 1..c, b > 1, Alike(b - 1, h) PROVE Alike(b, h)
  <2> DEFINE p == (b - 1) * n + h
             q == ((b - 1) - 1) * n + h
  <2>1. p \in 1..(c * n) /\ p - n = q /\ q \in 1..((c - 1) * n) /\ b - 1 \in 1..c
    <3>1. p = (b - 1) * n + h /\ c \in Nat /\ n \in Nat /\ b > 1
      BY <1>9
    <3> HIDE DEF p
    <3>2. /\ p \in 1..(c * n) /\ b - 1 \in 1..c
          /\ p - n = ((b - 1) - 1) * n + h /\ p - n \in 1..((c - 1) * n)
      BY <1>6, <3>1, ZoneSlot
    <3> QED BY <3>2
  <2>2. p \in 1..Len(out) /\ p = q + n
    <3> HIDE DEF q
    <3> QED BY <1>2, <1>3, <2>1
  <2>3. out[p] = InNextZone(out[q])
    BY <1>5, <2>1, <2>2
  <2>4. /\ q \in 1..Len(out) /\ out[q].az = b - 1 /\ out[q].type = out[h].type
        /\ out[q].cidr \in Cidr /\ out[q].cidr.mask = out[h].cidr.mask
        /\ SubnetBlock(q).base - AzBase(b - 1) = SubnetBlock(h).base - AzBase(1)
    BY <1>9
  <2> HIDE DEF p, q
  <2>5. out[q] \in SubnetOut
    <3>1. out \in Seq(SubnetOut)
      BY <1>4 DEF TypeOK
    <3> QED BY <2>4, <3>1
  <2>6. /\ out[p].az = (b - 1) + 1 /\ out[p].type = out[q].type
        /\ out[p].cidr = Shifted(out[q].cidr)
    BY <2>3, <2>4, <2>5 DEF InNextZone, Shifted, SubnetOut
  <2>7. /\ Shifted(out[q].cidr) \in Cidr
        /\ Shifted(out[q].cidr).mask = out[q].cidr.mask
        /\ BlockOf(Shifted(out[q].cidr)).base
             = BlockOf(out[q].cidr).base + BlockSize[AzMask]
    BY <1>4, <1>7, <2>4, ShiftedFacts
  <2>8. SubnetBlock(p).base = SubnetBlock(q).base + BlockSize[AzMask]
    BY <2>6, <2>7 DEF SubnetBlock
  <2>9. /\ AzBase(b) = AzBase(b - 1) + BlockSize[AzMask] /\ AzBase(b - 1) \in Nat
        /\ BlockSize[AzMask] \in Nat
    <3>1. b - 1 \in Nat \ {0} /\ (b - 1) + 1 = b
      BY <1>9
    <3>2. AzBase((b - 1) + 1) = AzBase(b - 1) + BlockSize[AzMask]
          /\ AzBase(b - 1) \in Nat /\ BlockSize[AzMask] \in Nat
      BY <1>4, <3>1, SliceFacts
    <3> QED BY <3>1, <3>2
  <2>10. SubnetBlock(q).base \in Nat
    BY <2>4, BlockFacts DEF SubnetBlock
  <2>11. SubnetBlock(p).base - AzBase(b) = SubnetBlock(h).base - AzBase(1)
    BY <2>4, <2>8, <2>9, <2>10
  <2>12. out[p].az = b
    BY <2>6
  <2> QED BY <2>2, <2>4, <2>6, <2>7, <2>11, <2>12 DEF p
<1> HIDE DEF Alike
<1>10. Bad = {}
  <2> SUFFICES ASSUME Bad # {} PROVE FALSE
    OBVIOUS
  <2>1. Bad \in SUBSET Nat
    OBVIOUS
  <2>2. PICK b \in Bad : \A k \in Bad : b <= k
    BY <2>1, LeastFacts
  <2>3. b \in 1..c /\ ~Alike(b, h) /\ b # 1
    BY <1>8
  <2>4. b > 1 /\ b - 1 \in 1..c /\ b - 1 < b
    BY <2>3
  <2>5. b - 1 \notin Bad
    BY <2>2, <2>4
  <2>6. Alike(b - 1, h)
    BY <2>4, <2>5
  <2> QED BY <1>9, <2>3, <2>4, <2>6
<1>11. Alike(a, h)
  BY <1>3, <1>10
<1> QED BY <1>1, <1>6, <1>11 DEF Alike

LEMMA SlotZone ==
  ASSUME NEW c \in Nat, NEW n \in Nat, NEW p \in 1..(c * n)
  PROVE  /\ ((p - 1) \div n) + 1 \in 1..c
         /\ ((p - 1) % n) + 1 \in 1..n
<1>1. n \in Nat \ {0}
  <2> SUFFICES ASSUME n = 0 PROVE FALSE
    OBVIOUS
  <2>1. c * n = 0
    OBVIOUS
  <2> QED BY <2>1
<1>2. p \in Nat /\ p - 1 \in Nat /\ p - 1 < c * n
  <2>1. PICK y \in Nat : y = c * n
    OBVIOUS
  <2> QED BY <2>1
<1>3. PICK d \in Nat, r \in 0..(n - 1) :
        d = (p - 1) \div n /\ r = (p - 1) % n /\ p - 1 = n * d + r
  BY <1>1, <1>2, DivisionFacts
<1>4. d < c
  <2> SUFFICES ASSUME c <= d PROVE FALSE
    OBVIOUS
  <2>1. c * n <= n * d
    OBVIOUS
  <2>2. PICK x \in Nat, y \in Nat : x = n * d /\ y = c * n
    OBVIOUS
  <2> QED BY <1>2, <1>3, <2>1, <2>2
<1> QED BY <1>3, <1>4

-----------------------------------------------------------------------------
(* What Auto makes of the converted list.  Its specs are the converted     *)
(* ones; `required` says how far behind the start of a zone's slice each   *)
(* of them is if no gap is left between them.                              *)
Handed ==
  [vpc |-> request.vpc, azCount |-> request.azCount, azCidrMask |-> Undefined,
   specs |-> [i \in DOMAIN converted |->
                [name |-> converted[i].type, mask |-> converted[i].mask]]]

Offset(rq, k) == IF k = 1 THEN 0 ELSE rq[k - 1]
Slot(rq, a, k) ==
  [base |-> AzBase(a) + Offset(rq, k), mask |-> converted[k].mask]
Named(a, k) == <<converted[k].type, a, k>>

Sized(rq) ==
  /\ rq \in Seq(Nat) /\ Len(rq) <= Len(converted)
  /\ \A k \in 1..Len(rq) : rq[k] = Offset(rq, k) + BlockSize[converted[k].mask]

SizedInFull(rq) == converted # <<>> /\ Sized(rq) /\ Len(rq) = Len(converted)

(* Auto adds no gap between specs that are aligned where they are.         *)
SlotsAligned(rq) ==
  \A a \in 1..request.azCount, k \in 1..Len(converted) :
    /\ converted[k].mask < Width
    /\ (AzBase(a) + Offset(rq, k)) % BlockSize[converted[k].mask] = 0

Filled(rq, a, i, b, cur, al) ==
  /\ a \in 1..(request.azCount + 1) /\ i \in 1..(Len(converted) + 1)
  /\ a <= request.azCount => b = [base |-> AzBase(a), mask |-> AzMask]
  /\ cur = IF i = 1 THEN Undefined ELSE Slot(rq, a, i - 1)
  /\ \A d \in 1..request.azCount, k \in 1..Len(converted) :
       d < a \/ (d = a /\ k < i) =>
         Named(d, k) \in DOMAIN al /\ al[Named(d, k)] = Slot(rq, d, k)

Shown(rq, pu) ==
  LET n == Len(converted)
  IN  pu = [p \in 1..(request.azCount * n) |->
              [az |-> ((p - 1) \div n) + 1, index |-> ((p - 1) % n) + 1,
               block |-> Slot(rq, ((p - 1) \div n) + 1, ((p - 1) % n) + 1)]]

Fresh(sp, rq, a, i, b, cur, al, pu) ==
  /\ sp = <<>> /\ rq = <<>> /\ a = 1 /\ i = 1
  /\ b = Undefined /\ cur = Undefined /\ al = <<>> /\ pu = <<>>

AutoAt(r, ph, sp, rq, a, i, b, cur, al, pu) ==
  IF ph \in {"idle", "refused"} THEN Fresh(sp, rq, a, i, b, cur, al, pu)
  ELSE /\ LegacyAccepted /\ position = SingleAzLength /\ NamesAreUnique
       /\ r = Handed
       /\ ph = "called" => Fresh(sp, rq, a, i, b, cur, al, pu)
       /\ ph = "sizing" =>
            /\ converted # <<>> /\ sp = r.specs /\ Sized(rq)
            /\ a = 1 /\ i = 1 /\ cur = Undefined /\ al = <<>>
       /\ ph = "failed" =>
            converted = <<>> \/ (SizedInFull(rq) /\ rq[Len(rq)] > BlockSize[AzMask])
       /\ ph \in {"placing", "published"} =>
            /\ sp = r.specs /\ SizedInFull(rq) /\ rq[Len(rq)] <= BlockSize[AzMask]
            /\ SlotsAligned(rq) => Filled(rq, a, i, b, cur, al)
       /\ ph = "published" /\ SlotsAligned(rq) => Shown(rq, pu)

AutoInv ==
  request.specs # Undefined =>
    AutoAt(autoRequest, autoPhase, specs, required, az, index, azBlock, autoCurrent,
           allocation, published)

LEMMA AutoFrame ==
  ASSUME UNCHANGED <<vars, converted, position>>
  PROVE  \A r, ph, sp, rq, a, i, b, cur, al, pu :
           AutoAt(r, ph, sp, rq, a, i, b, cur, al, pu)'
             = AutoAt(r, ph, sp, rq, a, i, b, cur, al, pu)
<1>1. /\ request' = request /\ phase' = phase /\ out' = out
      /\ converted' = converted /\ position' = position
  BY DEF vars
<1>2. /\ SingleAzLength' = SingleAzLength /\ LegacyAccepted' = LegacyAccepted
      /\ NamesAreUnique' = NamesAreUnique /\ Handed' = Handed
      /\ AzMask' = AzMask /\ \A i : AzBase(i)' = AzBase(i)
  BY <1>1, CallFrame DEF SingleAzLength, LegacyAccepted, NamesAreUnique, Handed
<1>3. \A rq : Sized(rq)' = Sized(rq) /\ SizedInFull(rq)' = SizedInFull(rq)
  BY <1>1 DEF Sized, SizedInFull
<1>4. \A rq, a, k : Slot(rq, a, k)' = Slot(rq, a, k) /\ Named(a, k)' = Named(a, k)
  BY <1>1, <1>2 DEF Slot, Named
<1>5. \A rq : SlotsAligned(rq)' = SlotsAligned(rq)
  BY <1>1, <1>2 DEF SlotsAligned
<1>6. \A rq, a, i, b, cur, al :
        Filled(rq, a, i, b, cur, al)' = Filled(rq, a, i, b, cur, al)
  BY <1>1, <1>2, <1>4 DEF Filled
<1>7. \A rq, pu : Shown(rq, pu)' = Shown(rq, pu)
  BY <1>1, <1>4 DEF Shown
<1> QED BY <1>1, <1>2, <1>3, <1>5, <1>6, <1>7 DEF AutoAt, Fresh

LEMMA AutoMoves ==
  ASSUME UNCHANGED <<vars, converted, position>>,
         request.specs # Undefined =>
           AutoAt(autoRequest', autoPhase', specs', required', az', index', azBlock',
                  autoCurrent', allocation', published')
  PROVE  AutoInv'
<1>1. request' = request
  BY DEF vars
<1> SUFFICES ASSUME request.specs # Undefined
             PROVE  AutoAt(autoRequest, autoPhase, specs, required, az, index, azBlock,
                           autoCurrent, allocation, published)'
  BY <1>1 DEF AutoInv
<1>2. PICK r, ph, sp, rq, a, i, b, cur, al, pu :
        /\ r = autoRequest' /\ ph = autoPhase' /\ sp = specs' /\ rq = required'
        /\ a = az' /\ i = index' /\ b = azBlock' /\ cur = autoCurrent'
        /\ al = allocation' /\ pu = published'
  OBVIOUS
<1>3. AutoAt(r, ph, sp, rq, a, i, b, cur, al, pu)
  BY <1>2
<1>4. AutoAt(r, ph, sp, rq, a, i, b, cur, al, pu)'
  BY <1>3, AutoFrame
<1> QED BY <1>2, <1>4

LEMMA NextNetmaskFacts ==
  ASSUME NEW b \in Nat, NEW w \in Masks, NEW m \in Masks, m < Width,
         NEW e, e = b + BlockSize[w], e % BlockSize[m] = 0, e < Space
  PROVE  Allocator!NextNetmask([base |-> b, mask |-> w], m) = [base |-> e, mask |-> m]
<1>1. PICK z \in Nat \ {0} : z = BlockSize[m]
  BY SizeFacts
<1>2. PICK y \in Nat \ {0} : y = BlockSize[w]
  BY SizeFacts
<1>3. z >= 2
  <2>1. m \in 0..(Width - 1) /\ m + 1 \in Masks
    BY WidthFacts DEF Masks
  <2>2. z = 2 * BlockSize[m + 1] /\ BlockSize[m + 1] \in Nat \ {0}
    BY <1>1, <2>1, SizeFacts, BlockSizeAssumption
  <2> QED BY <2>2
<1>4. e \in Nat \ {0} /\ e = b + y /\ e % z = 0
  BY <1>1, <1>2
<1>5. z <= e
  BY <1>4, MultipleIsLarger
<1> DEFINE x == [base |-> b, mask |-> w]
           l == LastHost(x)
<1>6. l \in {e - 1, e - 2}
  <2>1. l = e - (IF w <= Width - 2 THEN 2 ELSE 1)
    BY DEF LastHost, End, Size
  <2> QED BY <1>4, <2>1
<1> HIDE DEF l
<1>7. l \in Nat /\ e - z \in Nat /\ e - z <= l /\ l < (e - z) + z
  BY <1>3, <1>4, <1>5, <1>6
<1>8. (e - z) % z = 0
  <2>1. PICK f \in Nat : f = e - z
    BY <1>7
  <2>2. z % z = 0 /\ e = f + z
    BY <1>4, <2>1
  <2>3. (f + z) % z = f % z
    BY <2>2, RemainderOfSum
  <2> QED BY <1>4, <2>1, <2>2, <2>3
<1>9. Netmask(l, m) = [base |-> e - z, mask |-> m]
  <2>1. /\ Netmask(l, m) = [base |-> Netmask(l, m).base, mask |-> m]
        /\ Netmask(l, m).base \in Nat /\ Netmask(l, m).base % z = 0
        /\ Netmask(l, m).base <= l /\ l < Netmask(l, m).base + z
    BY <1>1, <1>7, NetmaskFacts
  <2>2. PICK g \in Nat : g = Netmask(l, m).base
    BY <2>1
  <2>3. g = e - z
    BY <1>7, <1>8, <2>1, <2>2, OnlyBlock
  <2> QED BY <2>1, <2>2, <2>3
<1>10. NextBlock(Netmask(l, m)) = [base |-> e, mask |-> m]
  <2>1. PICK f \in Nat : f = e - z /\ e = f + z
    BY <1>4, <1>7
  <2>2. NextBlock([base |-> f, mask |-> m]) = [base |-> f + z, mask |-> m]
    <3>1. f % BlockSize[m] = 0 /\ f + BlockSize[m] < Space
      BY <1>1, <1>8, <2>1
    <3> QED BY <1>1, <3>1, FollowingFacts
  <2> QED BY <1>9, <2>1, <2>2
<1>11. Allocator!NextNetmask(x, m) = NextBlock(Netmask(l, m))
  BY DEF Allocator!NextNetmask, Allocator!NextBlock, Allocator!Netmask, Allocator!LastHost,
         Allocator!End, Allocator!Size, Allocator!Space, NextBlock, Netmask, l, LastHost,
         End, Size, Space
<1> QED BY <1>10, <1>11

LEMMA SlicesInSpace ==
  ASSUME request \in Requests, AzMask <= Width, NEW a \in 1..request.azCount
  PROVE  /\ AzBase(a) \in Nat /\ AzBase(a) % BlockSize[AzMask] = 0
         /\ AzMask \in Masks /\ BlockSize[AzMask] \in Nat \ {0}
         /\ AzBase(a) + BlockSize[AzMask] <= Space
<1>1. /\ request.azCount \in Nat \ {0}
      /\ request.vpc.base \in Nat /\ request.vpc.mask \in Masks
      /\ request.vpc.base % BlockSize[request.vpc.mask] = 0
  BY RequestFacts
<1>2. a \in Nat \ {0}
  BY <1>1
<1>3. PICK z \in Nat \ {0} : z = BlockSize[AzMask]
  BY SliceFacts
<1>4. /\ AzMask \in Masks /\ AzBase(a) \in Nat /\ AzBase(a) % z = 0
  BY <1>2, <1>3, SliceFacts
<1>5. PICK v \in Nat, s \in Nat \ {0} : v = request.vpc.base /\ s = BlockSize[request.vpc.mask]
  BY <1>1, SizeFacts
<1>6. v + s <= Space
  <2>1. request \in Request
    BY LegacyRequestAssumption
  <2>2. request.vpc.base \in Addresses
    BY <2>1 DEF Request, Block
  <2>3. v < Space
    BY <1>5, <2>2, WidthAssumption, BlockSizeAssumption DEF Addresses, Space
  <2> QED BY <1>1, <1>5, <2>3, EndsInSpace
<1>7. PICK c \in Nat \ {0} : c = request.azCount
  BY <1>1
<1>8. c * z <= s
  BY <1>3, <1>5, <1>7, SlicesAssumption DEF AzMask
<1>9. AzBase(a) = v + z * (a - 1)
  BY <1>3, <1>5 DEF AzBase
<1>10. z * (a - 1) + z <= c * z
  <2>1. z * (a - 1) + z = a * z
    BY <1>2
  <2>2. a * z <= c * z
    BY <1>2, <1>7
  <2> QED BY <2>1, <2>2
<1>11. AzBase(a) + z <= Space
  <2>1. PICK x \in Nat : x = z * (a - 1)
    BY <1>2
  <2>2. PICK y \in Nat : y = c * z
    OBVIOUS
  <2>3. Space \in Nat
    BY WidthAssumption, BlockSizeAssumption DEF Space
  <2> QED BY <1>6, <1>8, <1>9, <1>10, <2>1, <2>2, <2>3
<1> QED BY <1>3, <1>4, <1>11

LEMMA SumsGrow ==
  ASSUME converted \in Seq(ConvertedSpec), NEW rq, Sized(rq), NEW k \in 1..Len(rq)
  PROVE  /\ rq[k] \in Nat /\ rq[k] <= rq[Len(rq)]
         /\ Offset(rq, k) \in Nat /\ k \in 1..Len(converted)
         /\ converted[k].mask \in Masks
         /\ rq[k] = Offset(rq, k) + BlockSize[converted[k].mask]
<1>1. PICK n \in Nat : n = Len(rq)
  BY DEF Sized
<1>2. \A j \in 1..n : rq[j] \in Nat
  BY <1>1 DEF Sized
<1>3. ASSUME NEW j \in 1..n
      PROVE  /\ Offset(rq, j) \in Nat /\ j \in 1..Len(converted)
             /\ converted[j].mask \in Masks
             /\ rq[j] = Offset(rq, j) + BlockSize[converted[j].mask]
  <2>1. j \in 1..Len(converted) /\ Len(converted) \in Nat
    BY <1>1 DEF Sized
  <2>2. converted[j].mask \in Masks
    <3>1. converted[j] \in ConvertedSpec
      <4> HIDE DEF ConvertedSpec
      <4> QED BY <2>1
    <3> QED BY <3>1 DEF ConvertedSpec
  <2>3. Offset(rq, j) \in Nat
    <3>1. j # 1 => j - 1 \in 1..n
      OBVIOUS
    <3> QED BY <1>2, <3>1 DEF Offset
  <2> QED BY <1>1, <2>1, <2>2, <2>3 DEF Sized
<1> DEFINE Bad == {j \in 1..n : rq[n - j] > rq[n] /\ n - j >= k}
<1>4. Bad = {}
  <2> SUFFICES ASSUME Bad # {} PROVE FALSE
    OBVIOUS
  <2>1. PICK j \in Bad : \A i \in Bad : j <= i
    <3>1. Bad \in SUBSET Nat
      OBVIOUS
    <3> QED BY <3>1, LeastFacts
  <2>2. j \in 1..n /\ rq[n - j] > rq[n] /\ n - j >= k
    OBVIOUS
  <2>3. PICK p \in 1..n : p = n - j /\ p + 1 \in 1..n /\ (p + 1) - 1 = p /\ p + 1 # 1
    BY <1>1, <2>2
  <2>4. rq[p + 1] = rq[p] + BlockSize[converted[p + 1].mask]
        /\ BlockSize[converted[p + 1].mask] \in Nat
    BY <1>3, <2>3, SizeFacts DEF Offset
  <2>5. rq[p] <= rq[p + 1]
    <3>1. PICK x \in Nat, y \in Nat, z \in Nat :
            /\ x = rq[p] /\ y = rq[p + 1] /\ z = BlockSize[converted[p + 1].mask]
            /\ y = x + z
      <4>1. rq[p] \in Nat /\ rq[p + 1] \in Nat
        BY <1>2, <2>3
      <4> QED BY <2>4, <4>1
    <3>2. x <= y
      BY <3>1
    <3> QED BY <3>1, <3>2
  <2>6. rq[p + 1] > rq[n]
    BY <1>2, <2>2, <2>3, <2>5
  <2>7. CASE p + 1 = n
    BY <1>2, <2>3, <2>6, <2>7
  <2>8. CASE p + 1 # n
    <3>1. j - 1 \in 1..n /\ n - (j - 1) = p + 1 /\ n - (j - 1) >= k
      BY <2>2, <2>3, <2>8
    <3>2. j - 1 \in Bad
      BY <2>6, <3>1
    <3>3. j <= j - 1
      BY <2>1, <3>2
    <3> QED BY <2>2, <3>3
  <2> QED BY <2>7, <2>8
<1>5. rq[k] <= rq[n]
  <2>1. n \in 1..n /\ k \in 1..n
    BY <1>1
  <2>2. CASE k = n
    BY <1>2, <2>1, <2>2
  <2>3. CASE k # n
    <3>1. n - k \in 1..n /\ n - (n - k) = k /\ k >= k
      BY <1>1, <2>3
    <3>2. ~(rq[k] > rq[n])
      BY <1>4, <3>1
    <3> QED BY <1>2, <2>1, <3>2
  <2> QED BY <2>2, <2>3
<1> QED BY <1>1, <1>2, <1>3, <1>5

LEMMA AutoFacts ==
  ASSUME request \in Requests, AzMask <= Width, converted \in Seq(ConvertedSpec),
         autoRequest = Handed
  PROVE  /\ Allocator!AzBitmask(autoRequest) = AzMask
         /\ Allocator!AzSize = BlockSize[AzMask]
         /\ autoRequest.vpc = request.vpc /\ autoRequest.azCount = request.azCount
         /\ autoRequest.specs # Undefined
         /\ autoRequest.specs \in Seq(AutoSpec)
         /\ Len(autoRequest.specs) = Len(converted)
         /\ autoRequest.specs = <<>> <=> converted = <<>>
         /\ \A k \in 1..Len(converted) :
              /\ autoRequest.specs[k]
                   = [name |-> converted[k].type, mask |-> converted[k].mask]
              /\ converted[k].mask \in Masks
              /\ specs = autoRequest.specs =>
                   /\ Allocator!MaskOf(k) = converted[k].mask
                   /\ \A a : Allocator!ID(a, k) = Named(a, k)
<1>1. PICK n \in Nat : n = Len(converted) /\ DOMAIN converted = 1..n
  OBVIOUS
<1>2. PICK ss : ss = [i \in 1..n |-> [name |-> converted[i].type, mask |-> converted[i].mask]]
  OBVIOUS
<1>3. /\ autoRequest.vpc = request.vpc /\ autoRequest.azCount = request.azCount
      /\ autoRequest.azCidrMask = Undefined /\ autoRequest.specs = ss
  BY <1>1, <1>2 DEF Handed
<1>4. ASSUME NEW k \in 1..n
      PROVE  /\ converted[k].type \in Types /\ converted[k].mask \in Masks
             /\ ss[k] = [name |-> converted[k].type, mask |-> converted[k].mask]
             /\ ss[k].name = converted[k].type /\ ss[k].mask = converted[k].mask
             /\ ss[k] \in AutoSpec
  <2>1. converted[k] \in ConvertedSpec
    BY <1>1
  <2>2. converted[k].type \in Types /\ converted[k].mask \in Masks
    BY <2>1 DEF ConvertedSpec
  <2>3. ss[k] = [name |-> converted[k].type, mask |-> converted[k].mask]
    BY <1>2
  <2> QED BY <2>2, <2>3 DEF AutoSpec
<1>5. ss \in Seq(AutoSpec) /\ Len(ss) = n
  <2>1. ss \in [1..n -> AutoSpec]
    BY <1>2, <1>4
  <2> QED BY <2>1
<1>6. ss # Undefined
  BY <1>5, UndefinedIsNothing
<1>7. ss = <<>> <=> converted = <<>>
  <2>1. ss = <<>> <=> n = 0
    BY <1>5
  <2>2. converted = <<>> <=> n = 0
    BY <1>1
  <2> QED BY <2>1, <2>2
<1>8. Allocator!AzBitmask(autoRequest) = AzMask
  BY <1>3 DEF Allocator!AzBitmask, Allocator!NewBits, AzMask, NewBitsPerAz,
              IsLogOfNextPow2
<1>9. Allocator!AzSize = BlockSize[AzMask]
  BY <1>8 DEF Allocator!AzSize
<1>10. ASSUME specs = ss, NEW k \in 1..n
       PROVE  /\ Allocator!MaskOf(k) = converted[k].mask
              /\ \A a : Allocator!ID(a, k) = Named(a, k)
  <2>1. specs[k].name = converted[k].type /\ specs[k].mask = converted[k].mask
    BY <1>4, <1>10
  <2>2. specs[k].mask # Undefined
    BY <1>4, <2>1, UndefinedIsNothing
  <2> QED BY <2>1, <2>2 DEF Allocator!MaskOf, Allocator!ID,
                            Allocator!SubnetAllocationID, Named
<1> QED BY <1>1, <1>3, <1>4, <1>5, <1>6, <1>7, <1>8, <1>9, <1>10

(* The state in which Auto works.                                          *)
Working ==
  /\ request \in Requests /\ AzMask <= Width
  /\ converted \in Seq(ConvertedSpec)
  /\ autoRequest = Handed
  /\ LegacyAccepted /\ position = SingleAzLength /\ NamesAreUnique

LEMMA SpecsChosen ==
  ASSUME Working, autoPhase = "called", Allocator!ChooseSpecs,
         AutoAt(autoRequest, autoPhase, specs, required, az, index, azBlock, autoCurrent,
                allocation, published)
  PROVE  AutoAt(autoRequest', autoPhase', specs', required', az', index', azBlock',
                autoCurrent', allocation', published')
<1>1. /\ Allocator!AzBitmask(autoRequest) = AzMask /\ AzMask \in Masks
      /\ autoRequest.specs # Undefined
      /\ autoRequest.specs = <<>> <=> converted = <<>>
  BY AutoFacts, SliceFacts DEF Working
<1>2. Fresh(specs, required, az, index, azBlock, autoCurrent, allocation, published)
  BY DEF AutoAt
<1>3. autoRequest' = autoRequest /\ required' = required /\ az' = az /\ index' = index
      /\ autoCurrent' = autoCurrent /\ allocation' = allocation
  BY DEF Allocator!ChooseSpecs, Allocator!Throw
<1>4. \/ converted = <<>> /\ autoPhase' = "failed"
      \/ converted # <<>> /\ autoPhase' = "sizing" /\ specs' = autoRequest.specs
  BY <1>1 DEF Allocator!ChooseSpecs, Allocator!Throw, Allocator!Masks, Masks
<1>5. Sized(<<>>)
  <2>1. Len(converted) \in Nat /\ Len(<<>>) = 0 /\ <<>> \in Seq(Nat)
    BY DEF Working
  <2> QED BY <2>1 DEF Sized
<1> QED BY <1>2, <1>3, <1>4, <1>5 DEF AutoAt, Working, Fresh

LEMMA SizeAdded ==
  ASSUME Working, autoPhase = "sizing", Allocator!AddSize,
         AutoAt(autoRequest, autoPhase, specs, required, az, index, azBlock, autoCurrent,
                allocation, published)
  PROVE  AutoAt(autoRequest', autoPhase', specs', required', az', index', azBlock',
                autoCurrent', allocation', published')
<1>1. /\ converted # <<>> /\ specs = autoRequest.specs /\ Sized(required)
      /\ az = 1 /\ index = 1 /\ autoCurrent = Undefined /\ allocation = <<>>
  BY DEF AutoAt
<1>2. PICK rq \in Seq(Nat) : rq = required
  BY <1>1 DEF Sized
<1>3. PICK k \in Nat : k = Len(rq) + 1
  OBVIOUS
<1>4. PICK n \in Nat : n = Len(converted)
  BY DEF Working
<1>5. Len(specs) = n
  BY <1>1, <1>4, AutoFacts DEF Working
<1>6. k <= n /\ k \in 1..n
  BY <1>2, <1>3, <1>5 DEF Allocator!AddSize
<1>7. Allocator!MaskOf(k) = converted[k].mask /\ converted[k].mask \in Masks
  BY <1>1, <1>4, <1>6, AutoFacts DEF Working
<1> DEFINE s == Offset(rq, k) + BlockSize[converted[k].mask]
           tt == Append(rq, s)
<1>8. /\ required' = tt /\ autoPhase' = autoPhase /\ specs' = specs
      /\ autoRequest' = autoRequest /\ az' = az /\ index' = index
      /\ autoCurrent' = autoCurrent /\ allocation' = allocation
  <2>1. required = <<>> <=> k = 1
    BY <1>2, <1>3
  <2>2. Len(required) = k - 1 /\ Len(required) + 1 = k
    BY <1>2, <1>3
  <2>3. Offset(rq, k) = IF required = <<>> THEN 0 ELSE required[Len(required)]
    BY <1>2, <2>1, <2>2 DEF Offset
  <2> QED BY <1>2, <1>7, <2>2, <2>3 DEF Allocator!AddSize, Allocator!Masks, Masks
<1>9. s \in Nat
  <2>1. k # 1 => k - 1 \in 1..Len(rq)
    BY <1>3, <1>6
  <2>2. Offset(rq, k) \in Nat
    BY <2>1 DEF Offset
  <2> QED BY <1>7, <2>2, SizeFacts
<1>10. Sized(tt)
  <2> HIDE DEF s
  <2>1. /\ tt \in Seq(Nat) /\ Len(tt) = k /\ tt[k] = s
        /\ \A j \in 1..(k - 1) : tt[j] = rq[j]
    BY <1>3, <1>9
  <2> HIDE DEF tt
  <2>2. ASSUME NEW j \in 1..k PROVE Offset(tt, j) = Offset(rq, j)
    <3>1. j # 1 => j - 1 \in 1..(k - 1)
      OBVIOUS
    <3> QED BY <2>1, <3>1 DEF Offset
  <2>3. ASSUME NEW j \in 1..k
        PROVE  tt[j] = Offset(tt, j) + BlockSize[converted[j].mask]
    <3>1. CASE j = k
      BY <2>1, <2>2, <3>1 DEF s
    <3>2. CASE j # k
      <4>1. j \in 1..(k - 1) /\ j \in 1..Len(rq)
        BY <1>3, <3>2
      <4> QED BY <1>1, <1>2, <2>1, <2>2, <4>1 DEF Sized
    <3> QED BY <3>1, <3>2
  <2> QED BY <1>4, <1>6, <2>1, <2>3 DEF Sized
<1> HIDE DEF tt
<1> QED BY <1>1, <1>8, <1>10 DEF AutoAt, Working

LEMMA TotalChecked ==
  ASSUME Working, autoPhase = "sizing", Allocator!CheckTotal,
         AutoAt(autoRequest, autoPhase, specs, required, az, index, azBlock, autoCurrent,
                allocation, published)
  PROVE  AutoAt(autoRequest', autoPhase', specs', required', az', index', azBlock',
                autoCurrent', allocation', published')
<1>1. /\ converted # <<>> /\ specs = autoRequest.specs /\ Sized(required)
      /\ az = 1 /\ index = 1 /\ autoCurrent = Undefined /\ allocation = <<>>
  BY DEF AutoAt
<1>2. /\ Len(specs) = Len(converted) /\ Allocator!AzSize = BlockSize[AzMask]
      /\ Allocator!AzBitmask(autoRequest) = AzMask /\ autoRequest.vpc = request.vpc
  BY <1>1, AutoFacts DEF Working
<1>3. SizedInFull(required)
  BY <1>1, <1>2 DEF SizedInFull, Allocator!CheckTotal
<1>4. /\ autoRequest' = autoRequest /\ specs' = specs /\ required' = required
      /\ az' = az /\ index' = index /\ autoCurrent' = autoCurrent
      /\ allocation' = allocation /\ published' = published
  BY DEF Allocator!CheckTotal, Allocator!Throw
<1>5. PICK l : l = required[Len(required)]
  OBVIOUS
<1>6. l \in Nat /\ BlockSize[AzMask] \in Nat /\ AzMask \in Masks
  <2>1. Len(required) \in 1..Len(required)
    <3>1. PICK n \in Nat : n = Len(converted)
      BY DEF Working
    <3>2. n > 0
      BY <1>1, <3>1 DEF Working
    <3> QED BY <1>3, <3>1, <3>2 DEF SizedInFull
  <2>2. required[Len(required)] \in Nat
    BY <1>1, <2>1 DEF Sized
  <2> QED BY <1>5, <2>2, SliceFacts DEF Working
<1>7. CASE l > BlockSize[AzMask]
  <2>1. autoPhase' = "failed"
    BY <1>2, <1>5, <1>7 DEF Allocator!CheckTotal, Allocator!Throw, Allocator!TooLarge
  <2> QED BY <1>3, <1>4, <1>5, <1>7, <2>1 DEF AutoAt, Working
<1>8. CASE ~(l > BlockSize[AzMask])
  <2>1. /\ autoPhase' = "placing"
        /\ azBlock' = Allocator!Netmask(request.vpc.base, AzMask)
    BY <1>2, <1>5, <1>8 DEF Allocator!CheckTotal, Allocator!TooLarge
  <2>2. azBlock' = [base |-> AzBase(1), mask |-> AzMask]
    <3>1. Allocator!Netmask(request.vpc.base, AzMask) = Netmask(request.vpc.base, AzMask)
      BY DEF Allocator!Netmask, Netmask
    <3>2. request.vpc.base = AzBase(1)
      BY SliceFacts DEF Working
    <3>3. AzBase(1) \in Nat /\ AzBase(1) % BlockSize[AzMask] = 0
      <4>1. 1 \in Nat \ {0}
        OBVIOUS
      <4> QED BY <4>1, SliceFacts DEF Working
    <3> QED BY <1>6, <2>1, <3>1, <3>2, <3>3, NetmaskFacts
  <2>3. Filled(required, 1, 1, azBlock', Undefined, <<>>)
    <3>1. request.azCount \in Nat \ {0} /\ Len(converted) \in Nat
      BY RequestFacts DEF Working
    <3>2. 1 \in 1..(request.azCount + 1) /\ 1 \in 1..(Len(converted) + 1)
      BY <3>1
    <3>3. ~\E d \in 1..request.azCount, k \in 1..Len(converted) : d < 1 \/ (d = 1 /\ k < 1)
      BY <3>1
    <3> QED BY <2>2, <3>2, <3>3 DEF Filled
  <2>4. required[Len(required)] <= BlockSize[AzMask]
    BY <1>5, <1>6, <1>8
  <2> QED BY <1>1, <1>3, <1>4, <2>1, <2>3, <2>4 DEF AutoAt, Working
<1> QED BY <1>7, <1>8

LEMMA BlockPlaced ==
  ASSUME Working, autoPhase = "placing", Allocator!PlaceSubnet,
         AutoAt(autoRequest, autoPhase, specs, required, az, index, azBlock, autoCurrent,
                allocation, published)
  PROVE  AutoAt(autoRequest', autoPhase', specs', required', az', index', azBlock',
                autoCurrent', allocation', published')
<1>1. /\ specs = autoRequest.specs /\ SizedInFull(required)
      /\ required[Len(required)] <= BlockSize[AzMask]
      /\ SlotsAligned(required) => Filled(required, az, index, azBlock, autoCurrent, allocation)
  BY DEF AutoAt
<1>2. /\ autoRequest' = autoRequest /\ autoPhase' = autoPhase /\ specs' = specs
      /\ required' = required /\ az' = az /\ azBlock' = azBlock
      /\ index' = index + 1
      /\ az <= request.azCount /\ index <= Len(converted)
      /\ autoCurrent' = IF autoCurrent = Undefined
                        THEN Allocator!Netmask(azBlock.base, Allocator!MaskOf(index))
                        ELSE Allocator!NextNetmask(autoCurrent, Allocator!MaskOf(index))
      /\ allocation' = Allocator!Store(allocation, Allocator!ID(az, index), autoCurrent')
  BY <1>1, AutoFacts DEF Allocator!PlaceSubnet, Working
<1> SUFFICES ASSUME SlotsAligned(required)
             PROVE  Filled(required, az, index + 1, azBlock, autoCurrent', allocation')
  BY <1>1, <1>2 DEF AutoAt, Working
<1>3. Filled(required, az, index, azBlock, autoCurrent, allocation)
  BY <1>1
<1>4. PICK c \in Nat \ {0}, n \in Nat : c = request.azCount /\ n = Len(converted)
  BY RequestFacts DEF Working
<1>5. PICK a \in 1..c, i \in 1..n : a = az /\ i = index
  BY <1>2, <1>3, <1>4 DEF Filled
<1>6. PICK m \in Masks : m = converted[i].mask /\ Allocator!MaskOf(i) = m
                         /\ Allocator!ID(a, i) = Named(a, i)
  BY <1>1, <1>4, AutoFacts DEF Working
<1>7. PICK rq \in Seq(Nat) : rq = required /\ Len(rq) = n
  BY <1>1, <1>4 DEF SizedInFull, Sized
<1>8. m < Width /\ (AzBase(a) + Offset(rq, i)) % BlockSize[m] = 0
  BY <1>4, <1>6, <1>7 DEF SlotsAligned
<1>9. /\ AzBase(a) \in Nat /\ AzMask \in Masks /\ BlockSize[AzMask] \in Nat \ {0}
      /\ AzBase(a) + BlockSize[AzMask] <= Space
  BY <1>4, SlicesInSpace DEF Working
<1>10. \A k \in 1..n : /\ Offset(rq, k) \in Nat /\ converted[k].mask \in Masks
                       /\ rq[k] \in Nat /\ rq[k] <= rq[n]
                       /\ rq[k] = Offset(rq, k) + BlockSize[converted[k].mask]
  BY <1>1, <1>7, SumsGrow DEF SizedInFull, Working
<1> DEFINE e == AzBase(a) + Offset(rq, i)
<1>11. e \in Nat /\ e < Space
  <2>1. BlockSize[m] \in Nat \ {0} /\ Space \in Nat
    BY SizeFacts, WidthAssumption, BlockSizeAssumption DEF Space
  <2>2. rq[n] <= BlockSize[AzMask] /\ n \in 1..n
    BY <1>1, <1>4, <1>7
  <2>3. /\ Offset(rq, i) \in Nat /\ rq[i] \in Nat /\ rq[i] <= rq[n] /\ rq[n] \in Nat
        /\ rq[i] = Offset(rq, i) + BlockSize[m]
    BY <1>6, <1>10, <2>2
  <2>4. PICK x \in Nat : x = AzBase(a)
    BY <1>9
  <2>5. PICK o \in Nat : o = Offset(rq, i)
    BY <2>3
  <2>6. PICK r \in Nat, t \in Nat : r = rq[i] /\ t = rq[n]
    BY <2>3
  <2>7. PICK y \in Nat, z \in Nat \ {0}, s \in Nat :
          y = BlockSize[AzMask] /\ z = BlockSize[m] /\ s = Space
    BY <1>9, <2>1
  <2>8. e = x + o /\ r = o + z /\ r <= t /\ t <= y /\ x + y <= s
    BY <1>9, <2>2, <2>3, <2>4, <2>5, <2>6, <2>7
  <2> HIDE DEF e
  <2>9. e \in Nat /\ e < s
    BY <2>8
  <2> QED BY <2>7, <2>9
<1>12. autoCurrent' = Slot(rq, a, i)
  <2>0. Slot(rq, a, i) = [base |-> e, mask |-> m]
    BY <1>6 DEF Slot
  <2>1. CASE i = 1
    <3>1. autoCurrent = Undefined /\ azBlock = [base |-> AzBase(a), mask |-> AzMask]
      BY <1>3, <1>4, <1>5, <2>1 DEF Filled
    <3>2. autoCurrent' = Netmask(AzBase(a), m)
      BY <1>2, <1>5, <1>6, <3>1 DEF Allocator!Netmask, Netmask
    <3>3. e = AzBase(a)
      BY <1>9, <2>1 DEF Offset
    <3>4. e % BlockSize[m] = 0
      BY <1>8
    <3> HIDE DEF e
    <3> QED BY <1>11, <2>0, <3>2, <3>3, <3>4, NetmaskFacts
  <2>2. CASE i # 1
    <3>1. PICK j \in 1..n : j = i - 1
      BY <2>2
    <3>2. autoCurrent = Slot(rq, a, j)
      BY <1>3, <1>5, <1>7, <2>2, <3>1 DEF Filled
    <3>3. PICK w \in Masks : w = converted[j].mask
      BY <1>10
    <3>4. PICK b \in Nat : b = AzBase(a) + Offset(rq, j)
      BY <1>9, <1>10
    <3>5. autoCurrent = [base |-> b, mask |-> w]
      BY <3>2, <3>3, <3>4 DEF Slot
    <3>6. e = b + BlockSize[w]
      <4>1. Offset(rq, i) = rq[j]
        BY <2>2, <3>1 DEF Offset
      <4>2. rq[j] = Offset(rq, j) + BlockSize[w] /\ Offset(rq, j) \in Nat
        BY <1>10, <3>3
      <4>3. BlockSize[w] \in Nat
        BY SizeFacts
      <4> QED BY <1>9, <3>4, <4>1, <4>2, <4>3
    <3>7. autoCurrent # Undefined
      <4>1. b < Space
        <5>1. BlockSize[w] \in Nat
          BY SizeFacts
        <5>2. Space \in Nat
          BY WidthAssumption, BlockSizeAssumption DEF Space
        <5> HIDE DEF e
        <5> QED BY <1>11, <3>6, <5>1, <5>2
      <4>2. b \in Addresses
        BY <4>1, WidthAssumption, BlockSizeAssumption DEF Addresses, Space
      <4>3. autoCurrent \in Block
        BY <3>5, <4>2 DEF Block
      <4> QED BY <4>3, UndefinedIsNothing
    <3>8. autoCurrent' = Allocator!NextNetmask([base |-> b, mask |-> w], m)
      BY <1>2, <1>5, <1>6, <3>5, <3>7
    <3>9. e % BlockSize[m] = 0
      BY <1>8
    <3> HIDE DEF e
    <3>10. Allocator!NextNetmask([base |-> b, mask |-> w], m) = [base |-> e, mask |-> m]
      BY <1>8, <1>11, <3>6, <3>9, NextNetmaskFacts
    <3> QED BY <2>0, <3>8, <3>10
  <2> QED BY <2>1, <2>2
<1>13. PICK x : x = Slot(rq, a, i)
  OBVIOUS
<1>14. PICK al : al = allocation
  OBVIOUS
<1>15. allocation' = [y \in DOMAIN al \cup {Named(a, i)} |-> IF y = Named(a, i) THEN x ELSE al[y]]
  BY <1>2, <1>5, <1>6, <1>12, <1>13, <1>14 DEF Allocator!Store
<1>16. ASSUME NEW d \in 1..c, NEW k \in 1..n, d < a \/ (d = a /\ k < i + 1)
       PROVE  Named(d, k) \in DOMAIN allocation' /\ allocation'[Named(d, k)] = Slot(rq, d, k)
  <2>1. CASE d = a /\ k = i
    BY <1>13, <1>15, <2>1
  <2>2. CASE ~(d = a /\ k = i)
    <3>1. d < a \/ (d = a /\ k < i)
      BY <1>16, <2>2
    <3>2. Named(d, k) \in DOMAIN al /\ al[Named(d, k)] = Slot(rq, d, k)
      BY <1>3, <1>4, <1>5, <1>7, <1>14, <3>1 DEF Filled
    <3>3. Named(d, k) # Named(a, i)
      BY <2>2 DEF Named
    <3> QED BY <1>15, <3>2, <3>3
  <2> QED BY <2>1, <2>2
<1>17. i + 1 # 1 /\ (i + 1) - 1 = i /\ i + 1 \in 1..(n + 1) /\ a \in 1..(c + 1)
  OBVIOUS
<1>18. a <= c => azBlock = [base |-> AzBase(a), mask |-> AzMask]
  BY <1>3, <1>4, <1>5 DEF Filled
<1> QED BY <1>4, <1>5, <1>7, <1>12, <1>16, <1>17, <1>18 DEF Filled

LEMMA ZoneLeft ==
  ASSUME Working, autoPhase = "placing", Allocator!NextAz,
         AutoAt(autoRequest, autoPhase, specs, required, az, index, azBlock, autoCurrent,
                allocation, published)
  PROVE  AutoAt(autoRequest', autoPhase', specs', required', az', index', azBlock',
                autoCurrent', allocation', published')
<1>1. /\ specs = autoRequest.specs /\ SizedInFull(required)
      /\ required[Len(required)] <= BlockSize[AzMask]
      /\ SlotsAligned(required) => Filled(required, az, index, azBlock, autoCurrent, allocation)
  BY DEF AutoAt
<1>2. /\ autoRequest' = autoRequest /\ autoPhase' = autoPhase /\ specs' = specs
      /\ required' = required /\ allocation' = allocation
      /\ azBlock' = Allocator!NextBlock(azBlock)
      /\ az' = az + 1 /\ index' = 1 /\ autoCurrent' = Undefined
      /\ az <= request.azCount /\ index > Len(converted)
  BY <1>1, AutoFacts DEF Allocator!NextAz, Working
<1> SUFFICES ASSUME SlotsAligned(required)
             PROVE  Filled(required, az + 1, 1, azBlock', Undefined, allocation)
  BY <1>1, <1>2 DEF AutoAt, Working
<1>3. Filled(required, az, index, azBlock, autoCurrent, allocation)
  BY <1>1
<1>4. PICK c \in Nat \ {0}, n \in Nat : c = request.azCount /\ n = Len(converted)
  BY RequestFacts DEF Working
<1>5. PICK a \in 1..c : a = az
  BY <1>2, <1>3, <1>4 DEF Filled
<1>6. index = n + 1
  BY <1>2, <1>3, <1>4 DEF Filled
<1>7. ASSUME a + 1 <= c PROVE azBlock' = [base |-> AzBase(a + 1), mask |-> AzMask]
  <2>1. azBlock = [base |-> AzBase(a), mask |-> AzMask]
    BY <1>3, <1>4, <1>5 DEF Filled
  <2>2. PICK e \in Nat, z \in Nat \ {0} : /\ e = AzBase(a) /\ z = BlockSize[AzMask]
                                          /\ AzMask \in Masks /\ e % z = 0
    BY <1>4, SlicesInSpace DEF Working
  <2>3. AzBase(a + 1) = e + z
    <3>1. a \in Nat \ {0}
      OBVIOUS
    <3> QED BY <2>2, <3>1, SliceFacts DEF Working
  <2>4. e + z < Space
    <3>1. a + 1 \in 1..c
      BY <1>7
    <3>2. AzBase(a + 1) + z <= Space
      BY <1>4, <2>2, <3>1, SlicesInSpace DEF Working
    <3>3. Space \in Nat
      BY WidthAssumption, BlockSizeAssumption DEF Space
    <3> QED BY <2>3, <3>2, <3>3
  <2>5. NextBlock(azBlock) = [base |-> e + z, mask |-> AzMask]
    BY <2>1, <2>2, <2>4, FollowingFacts
  <2>6. Allocator!NextBlock(azBlock) = NextBlock(azBlock)
    BY DEF Allocator!NextBlock, Allocator!Netmask, Allocator!End, Allocator!Size,
           Allocator!Space, NextBlock, Netmask, End, Size, Space
  <2> QED BY <1>2, <2>3, <2>5, <2>6
<1>8. ASSUME NEW d \in 1..c, NEW k \in 1..n, d < a + 1 \/ (d = a + 1 /\ k < 1)
      PROVE  Named(d, k) \in DOMAIN allocation
             /\ allocation[Named(d, k)] = Slot(required, d, k)
  <2>1. d < a \/ (d = a /\ k < n + 1)
    BY <1>8
  <2> QED BY <1>3, <1>4, <1>5, <1>6, <2>1 DEF Filled
<1>9. a + 1 \in 1..(c + 1) /\ 1 \in 1..(n + 1)
  OBVIOUS
<1> QED BY <1>4, <1>5, <1>7, <1>8, <1>9 DEF Filled

LEMMA LayoutPublished ==
  ASSUME Working, autoPhase = "placing", Allocator!Publish,
         AutoAt(autoRequest, autoPhase, specs, required, az, index, azBlock, autoCurrent,
                allocation, published)
  PROVE  AutoAt(autoRequest', autoPhase', specs', required', az', index', azBlock',
                autoCurrent', allocation', published')
<1>1. /\ specs = autoRequest.specs /\ SizedInFull(required)
      /\ required[Len(required)] <= BlockSize[AzMask]
      /\ SlotsAligned(required) => Filled(required, az, index, azBlock, autoCurrent, allocation)
  BY DEF AutoAt
<1>2. /\ autoRequest' = autoRequest /\ autoPhase' = "published" /\ specs' = specs
      /\ required' = required /\ az' = az /\ index' = index /\ azBlock' = azBlock
      /\ autoCurrent' = autoCurrent /\ allocation' = allocation
      /\ az > request.azCount
  BY AutoFacts DEF Allocator!Publish, Working
<1> SUFFICES ASSUME SlotsAligned(required)
             PROVE  Shown(required, published')
  BY <1>1, <1>2 DEF AutoAt, Working
<1>3. Filled(required, az, index, azBlock, autoCurrent, allocation)
  BY <1>1
<1>4. PICK c \in Nat \ {0}, n \in Nat : c = request.azCount /\ n = Len(converted)
  BY RequestFacts DEF Working
<1>5. PICK ns : ns = Allocator!BareSpecNames
  OBVIOUS
<1>6. Len(ns) = n /\ \A k \in 1..n : ns[k] = converted[k].type
  <2>1. /\ autoRequest.specs # Undefined /\ autoRequest.specs \in Seq(AutoSpec)
        /\ Len(autoRequest.specs) = n
        /\ \A k \in 1..n : autoRequest.specs[k]
                             = [name |-> converted[k].type, mask |-> converted[k].mask]
    BY <1>4, AutoFacts DEF Working
  <2>2. ns = [i \in 1..n |-> autoRequest.specs[i].name]
    <3>1. DOMAIN autoRequest.specs = 1..n
      BY <2>1
    <3> QED BY <1>5, <2>1, <3>1 DEF Allocator!BareSpecNames
  <2>3. ASSUME NEW k \in 1..n PROVE ns[k] = converted[k].type
    <3>1. ns[k] = autoRequest.specs[k].name
      BY <2>2
    <3>2. autoRequest.specs[k] = [name |-> converted[k].type, mask |-> converted[k].mask]
      BY <2>1
    <3> QED BY <3>1, <3>2
  <2>4. \A k \in 1..n : converted[k].type \in Types
    <3>1. \A k \in 1..n : converted[k] \in ConvertedSpec
      BY <1>4 DEF Working
    <3> QED BY <3>1 DEF ConvertedSpec
  <2>5. ns \in [1..n -> Types]
    BY <2>2, <2>3, <2>4
  <2>6. ns \in Seq(Types)
    BY <2>5
  <2>7. Len(ns) = n
    BY <2>5, <2>6
  <2> QED BY <2>3, <2>7
<1> DEFINE zone_(p) == ((p - 1) \div n) + 1
           spec_(p) == ((p - 1) % n) + 1
<1>7. published' = [p \in 1..(c * n) |->
                      [az |-> zone_(p), index |-> spec_(p),
                       block |-> allocation[<<ns[spec_(p)], zone_(p), spec_(p)>>]]]
  <2>1. autoRequest.azCount = c
    BY <1>4, AutoFacts DEF Working
  <2> QED BY <1>5, <1>6, <2>1 DEF Allocator!Publish, Allocator!SubnetAllocationID
<1>8. ASSUME NEW p \in 1..(c * n)
      PROVE  allocation[<<ns[spec_(p)], zone_(p), spec_(p)>>]
               = Slot(required, zone_(p), spec_(p))
  <2>1. PICK a, k : a = zone_(p) /\ k = spec_(p)
    OBVIOUS
  <2>2. a \in 1..c /\ k \in 1..n
    BY <1>8, <2>1, SlotZone
  <2>3. <<ns[k], a, k>> = Named(a, k)
    BY <1>6, <2>2 DEF Named
  <2>4. az \in Nat /\ a < az
    BY <1>2, <1>3, <1>4, <2>2 DEF Filled
  <2>5. allocation[Named(a, k)] = Slot(required, a, k)
    BY <1>3, <1>4, <2>2, <2>4 DEF Filled
  <2> QED BY <2>1, <2>3, <2>5
<1> HIDE DEF zone_, spec_
<1>9. published' = [p \in 1..(c * n) |->
                      [az |-> zone_(p), index |-> spec_(p),
                       block |-> Slot(required, zone_(p), spec_(p))]]
  BY <1>7, <1>8
<1> QED BY <1>4, <1>9 DEF Shown, zone_, spec_

LEMMA AutoWaits ==
  ASSUME AutoInv, request' = request, UNCHANGED autoVars,
         request.specs # Undefined => autoPhase \in {"idle", "refused"}
  PROVE  AutoInv'
<1> SUFFICES ASSUME request.specs # Undefined
             PROVE  AutoAt(autoRequest, autoPhase, specs, required, az, index, azBlock,
                           autoCurrent, allocation, published)'
  BY DEF AutoInv
<1>1. Fresh(specs, required, az, index, azBlock, autoCurrent, allocation, published)
  BY DEF AutoInv, AutoAt
<1>2. /\ autoPhase' = autoPhase /\ specs' = specs /\ required' = required /\ az' = az
      /\ index' = index /\ azBlock' = azBlock /\ autoCurrent' = autoCurrent
      /\ allocation' = allocation /\ published' = published
  BY DEF autoVars
<1>3. Fresh(specs, required, az, index, azBlock, autoCurrent, allocation, published)'
  BY <1>1, <1>2 DEF Fresh
<1> QED BY <1>2, <1>3 DEF AutoAt

LEMMA AutoActs ==
  ASSUME IInv, FirstInv, CopyInv, AutoInv, AutoStep, request.specs # Undefined
  PROVE  AutoAt(autoRequest', autoPhase', specs', required', az', index', azBlock',
                autoCurrent', allocation', published')
<1>1. AutoAt(autoRequest, autoPhase, specs, required, az, index, azBlock, autoCurrent,
             allocation, published)
  BY DEF AutoInv
<1>2. \/ autoPhase = "called" /\ Allocator!ChooseSpecs
      \/ autoPhase = "sizing" /\ Allocator!AddSize
      \/ autoPhase = "sizing" /\ Allocator!CheckTotal
      \/ autoPhase = "placing" /\ Allocator!PlaceSubnet
      \/ autoPhase = "placing" /\ Allocator!NextAz
      \/ autoPhase = "placing" /\ Allocator!Publish
  BY DEF AutoStep, Allocator!Next, Allocator!ChooseSpecs, Allocator!AddSize,
         Allocator!CheckTotal, Allocator!PlaceSubnet, Allocator!NextAz, Allocator!Publish
<1>3. /\ LegacyAccepted /\ position = SingleAzLength /\ NamesAreUnique
      /\ autoRequest = Handed
  BY <1>1, <1>2 DEF AutoAt
<1>4. request \in Requests /\ AzMask <= Width
  <2>1. phase = "returned"
    BY <1>3 DEF LegacyAccepted
  <2> QED BY <2>1, FirstZoneFacts DEF Placing
<1>5. Working
  BY <1>3, <1>4 DEF Working, CopyInv, Copying
<1> QED BY <1>1, <1>2, <1>5, SpecsChosen, SizeAdded, TotalChecked, BlockPlaced, ZoneLeft,
           LayoutPublished

LEMMA AutoStepInv ==
  ASSUME IInv, FirstInv, CopyInv, AutoInv, [ConversionNext]_conversionVars
  PROVE  AutoInv'
<1>1. request.specs # Undefined /\ autoPhase \notin {"idle", "refused"}
        => LegacyAccepted /\ position = SingleAzLength
  BY DEF AutoInv, AutoAt
<1>2. CASE LegacyStep
  <2>1. Next /\ UNCHANGED autoVars
    BY <1>2 DEF LegacyStep
  <2>2. phase # "returned" /\ request' = request
    BY <2>1 DEF Next, RefuseSplit, ReturnDefaults, Split, FilterSpec, StartFirstZone,
                RefuseAddressZero, PlaceSubnet, RefuseMask, NextZone, Throw
  <2>3. request.specs # Undefined => autoPhase \in {"idle", "refused"}
    BY <1>1, <2>2 DEF LegacyAccepted
  <2> QED BY <2>1, <2>2, <2>3, AutoWaits
<1>3. CASE OpenGap \/ FillGap \/ ConvertSubnet
  <2>1. request' = request /\ UNCHANGED autoVars
    BY <1>3 DEF OpenGap, FillGap, ConvertSubnet, vars
  <2>2. position # SingleAzLength
    <3>1. SingleAzLength \in Nat /\ position \in Nat
      BY InList DEF IInv, CopyInv, Copying
    <3>2. \/ position \in 1..(SingleAzLength - 1)
          \/ position < SingleAzLength
      BY <1>3 DEF OpenGap, FillGap, ConvertSubnet, CopyInv, Copying
    <3> QED BY <3>1, <3>2
  <2>3. request.specs # Undefined => autoPhase \in {"idle", "refused"}
    BY <1>1, <2>2
  <2> QED BY <2>1, <2>3, AutoWaits
<1>4. CASE UseAuto
  <2>1. /\ UNCHANGED <<vars, converted, position>>
        /\ LegacyAccepted /\ position = SingleAzLength /\ autoPhase = "idle"
        /\ specs' = specs /\ required' = required /\ az' = az
        /\ index' = index /\ azBlock' = azBlock /\ autoCurrent' = autoCurrent
        /\ allocation' = allocation /\ published' = published
        /\ \/ NamesAreUnique /\ autoPhase' = "called" /\ autoRequest' = Handed
           \/ autoPhase' = "refused"
    BY <1>4 DEF UseAuto, Handed
  <2>2. request.specs # Undefined =>
          Fresh(specs, required, az, index, azBlock, autoCurrent, allocation, published)
    BY <2>1 DEF AutoInv, AutoAt
  <2>3. request.specs # Undefined =>
          AutoAt(autoRequest', autoPhase', specs', required', az', index', azBlock',
                 autoCurrent', allocation', published')
    BY <2>1, <2>2 DEF AutoAt
  <2> QED BY <2>1, <2>3, AutoMoves
<1>5. CASE AutoStep
  <2>1. UNCHANGED <<vars, converted, position>>
    BY <1>5 DEF AutoStep
  <2> QED BY <1>5, <2>1, AutoActs, AutoMoves
<1>6. CASE UNCHANGED conversionVars
  <2>1. UNCHANGED <<vars, converted, position>> /\ UNCHANGED autoVars
    BY <1>6 DEF conversionVars
  <2>2. request.specs # Undefined =>
          AutoAt(autoRequest', autoPhase', specs', required', az', index', azBlock',
                 autoCurrent', allocation', published')
    BY <2>1 DEF AutoInv, autoVars
  <2> QED BY <2>1, <2>2, AutoMoves
<1> QED BY <1>2, <1>3, <1>4, <1>5, <1>6 DEF ConversionNext

-----------------------------------------------------------------------------
(* The layout that is left is the one Auto was to keep.                    *)
LEMMA SmallerMask ==
  ASSUME NEW m \in Masks, NEW n \in Masks, BlockSize[m] <= BlockSize[n]
  PROVE  n <= m
<1> SUFFICES ASSUME m < n PROVE FALSE
  BY DEF Masks
<1>1. /\ m \in 0..(Width - 1) /\ m + 1 \in 0..Width /\ n \in 0..Width
      /\ m + 1 <= n /\ m + 1 \in Masks
  BY WidthFacts DEF Masks
<1>2. PICK x \in Nat \ {0}, y \in Nat \ {0} : x = BlockSize[m + 1] /\ y = BlockSize[n]
  BY <1>1, SizeFacts
<1>3. BlockSize[m] = 2 * x /\ x % y = 0
  BY <1>1, <1>2, BlockSizeAssumption
<1>4. y <= x
  BY <1>3, MultipleIsLarger
<1> QED BY <1>2, <1>3, <1>4

LEMMA ConversionComplete ==
  ASSUME IInv, FirstInv, ConversionInv, CopyInv, Tidy, position = SingleAzLength,
         converted # <<>>
  PROVE  \E st : StandsAt(converted, st, SingleAzLength, Undefined)
<1>1. SingleAzLength \in Nat
  BY TidyFacts
<1>2. gap = Undefined
  <2>1. gap # Undefined => position \in 1..(SingleAzLength - 1)
    BY DEF CopyInv, Copying
  <2> QED BY <1>1, <2>1
<1>3. Converting(converted, position, gap)
  BY DEF ConversionInv, Tidy, LegacyAccepted
<1>4. ~Stuck(position) /\ ~Unstarted(converted, position, gap)
  BY <1>1 DEF Stuck, Unstarted
<1> QED BY <1>2, <1>3, <1>4 DEF Converting

LEMMA StartsAre ==
  ASSUME converted \in Seq(ConvertedSpec), NEW rq, SizedInFull(rq),
         NEW st, Starts(converted, st)
  PROVE  \A k \in 1..Len(converted) :
           st[k] = st[1] + Offset(rq, k) /\ st[k + 1] = st[1] + rq[k]
<1>1. PICK n \in Nat : n = Len(converted) /\ n = Len(rq)
  BY DEF SizedInFull
<1>2. \A k \in 1..n : /\ rq[k] \in Nat /\ Offset(rq, k) \in Nat
                      /\ BlockSize[converted[k].mask] \in Nat
                      /\ rq[k] = Offset(rq, k) + BlockSize[converted[k].mask]
  BY <1>1, SumsGrow, SizeFacts DEF SizedInFull
<1>3. /\ \A k \in 1..(n + 1) : st[k] \in Nat
      /\ \A k \in 1..n : st[k + 1] = st[k] + BlockSize[converted[k].mask]
  BY <1>1 DEF Starts
<1>4. st[1] \in Nat
  BY <1>3
<1>5. ASSUME NEW k \in 1..n, st[k] = st[1] + Offset(rq, k)
      PROVE  st[k + 1] = st[1] + rq[k]
  <2>1. PICK x \in Nat, o \in Nat, z \in Nat, y \in Nat :
          /\ x = st[1] /\ o = Offset(rq, k) /\ z = BlockSize[converted[k].mask]
          /\ y = rq[k] /\ y = o + z
    BY <1>2, <1>4, SMTT(30)
  <2>2. st[k + 1] = (x + o) + z
    BY <1>3, <1>5, <2>1
  <2>3. (x + o) + z = x + y
    BY <2>1
  <2> QED BY <2>1, <2>2, <2>3
<1> DEFINE Bad == {k \in 1..n : st[k] # st[1] + Offset(rq, k)}
<1>6. Bad = {}
  <2> SUFFICES ASSUME Bad # {} PROVE FALSE
    OBVIOUS
  <2>1. PICK k \in Bad : \A j \in Bad : k <= j
    <3>1. Bad \in SUBSET Nat
      OBVIOUS
    <3> QED BY <3>1, LeastFacts
  <2>2. k \in 1..n /\ st[k] # st[1] + Offset(rq, k)
    OBVIOUS
  <2>3. k # 1
    <3>1. Offset(rq, 1) = 0
      BY DEF Offset
    <3> QED BY <1>4, <2>2, <3>1
  <2>4. PICK j \in 1..n : j = k - 1 /\ j + 1 = k /\ j < k
    BY <2>2, <2>3
  <2>5. st[j] = st[1] + Offset(rq, j)
    <3>1. j \notin Bad
      BY <2>1, <2>4
    <3> QED BY <3>1
  <2>6. st[k] = st[1] + rq[j]
    BY <1>5, <2>4, <2>5
  <2>7. Offset(rq, k) = rq[j]
    BY <2>3, <2>4 DEF Offset
  <2> QED BY <2>2, <2>6, <2>7
<1>7. \A k \in 1..n : st[k] = st[1] + Offset(rq, k)
  BY <1>6
<1> QED BY <1>1, <1>5, <1>7

LEMMA AcceptsWhatFits ==
  ASSUME IInv, FirstInv, ConversionInv, CopyInv, AutoInv
  PROVE  AutoAcceptsWhatFits
<1> SUFFICES ASSUME autoPhase = "failed", Regular, FitsInSlices, converted # <<>>
             PROVE  FALSE
  BY DEF AutoAcceptsWhatFits
<1>1. /\ request.specs # Undefined /\ LegacyAccepted /\ position = SingleAzLength
      /\ NamesAreUnique /\ SizedInFull(required)
      /\ required[Len(required)] > BlockSize[AzMask]
  BY DEF AutoInv, AutoAt, Regular
<1>2. Tidy
  BY <1>1, ConvertedDiffers, DistinctZone, RegularIsTidy
<1>3. PICK st : StandsAt(converted, st, SingleAzLength, Undefined)
  BY <1>1, <1>2, ConversionComplete
<1>4. /\ Laid(converted, st) /\ SingleAzLength \in 1..SingleAzLength
      /\ Len(converted) \in Nat /\ Len(converted) > 0
      /\ st[Len(converted) + 1] = End(SubnetBlock(SingleAzLength))
  BY <1>3, StandsFacts DEF StandsAt
<1>5. PICK n \in Nat, l \in Nat : n = SingleAzLength /\ l = Len(converted)
  BY <1>2, <1>4, TidyFacts
<1>6. /\ st[l + 1] = End(SubnetBlock(n)) /\ n \in 1..n /\ 1 \in 1..n /\ l \in 1..l
  BY <1>4, <1>5
<1>7. converted \in Seq(ConvertedSpec) /\ Starts(converted, st)
  BY <1>4 DEF Laid
<1>8. st[l + 1] = st[1] + required[l] /\ st[1] = SubnetBlock(1).base
  BY <1>1, <1>5, <1>6, <1>7, StartsAre DEF Starts
<1>9. Len(required) = l
  BY <1>1, <1>5 DEF SizedInFull
<1>10. required[l] \in Nat
  BY <1>1, <1>5, <1>6, <1>7, <1>9, SumsGrow DEF SizedInFull
<1>11. /\ request \in Requests /\ AzMask <= Width /\ Len(out) \in Nat
       /\ \A p \in 1..n : p \in DOMAIN out /\ out[p].az = 1
  <2>1. phase = "returned"
    BY <1>1 DEF LegacyAccepted
  <2> QED BY <1>1, <1>5, <2>1, FirstZoneFacts DEF Placing
<1>12. /\ AzBase(1) \in Nat /\ AzBase(1 + 1) = AzBase(1) + BlockSize[AzMask]
       /\ BlockSize[AzMask] \in Nat
  <2>1. 1 \in Nat \ {0}
    OBVIOUS
  <2> QED BY <1>11, <2>1, SliceFacts
<1>13. AzBase(1) <= SubnetBlock(1).base /\ End(SubnetBlock(n)) <= AzBase(1 + 1)
  BY <1>6, <1>11 DEF FitsInSlices
<1>14. SubnetBlock(1).base \in Nat
  BY <1>2, <1>5, <1>6, TidyFacts
<1> QED BY <1>1, <1>6, <1>8, <1>9, <1>10, <1>12, <1>13, <1>14

(* What is known when Auto has placed the converted specs.                 *)
LEMMA PublishedIsTidy ==
  ASSUME IInv, FirstInv, CopyInv, AutoInv,
         autoPhase = "published", request.specs # Undefined
  PROVE  /\ Tidy /\ Fitting /\ converted # <<>> /\ position = SingleAzLength
         /\ SingleAzLength > 0 => SubnetBlock(1).base = AzBase(1)
         /\ \A k \in 1..Len(converted) :
              BlockSize[AzMask] % BlockSize[converted[k].mask] = 0
<1>1. /\ LegacyAccepted /\ position = SingleAzLength /\ NamesAreUnique
      /\ SizedInFull(required) /\ required[Len(required)] <= BlockSize[AzMask]
  BY DEF AutoInv, AutoAt
<1>2. phase = "returned"
  BY <1>1 DEF LegacyAccepted
<1>3. /\ SingleAzLength \in Nat /\ SingleAzLength = Len(Ordered)
      /\ Placing /\ ZoneOK(1, FirstZone)
      /\ FirstZone \in Seq(SubnetOut) /\ Len(FirstZone) = SingleAzLength
      /\ \A p \in 1..SingleAzLength : FirstZone[p] = out[p]
  BY <1>2, FirstZoneFacts
<1>4. request \in Requests /\ AzMask <= Width /\ FilteredByType
  BY <1>3 DEF Placing
<1>5. PICK z \in Nat \ {0} : z = BlockSize[AzMask] /\ AzMask \in Masks
  BY <1>4, SliceFacts
<1>6. /\ converted \in Seq(ConvertedSpec) /\ converted # <<>>
      /\ Sized(required) /\ Len(required) = Len(converted)
  BY <1>1 DEF CopyInv, Copying, SizedInFull
<1>7. ASSUME NEW k \in 1..Len(converted)
      PROVE  converted[k].mask \in Masks /\ BlockSize[converted[k].mask] <= z
  <2>1. k \in 1..Len(required) /\ Len(required) \in 1..Len(required)
    BY <1>6
  <2>2. /\ required[k] \in Nat /\ required[k] <= required[Len(required)]
        /\ required[Len(required)] \in Nat
        /\ Offset(required, k) \in Nat /\ converted[k].mask \in Masks
        /\ required[k] = Offset(required, k) + BlockSize[converted[k].mask]
    BY <1>6, <2>1, SumsGrow
  <2>3. BlockSize[converted[k].mask] \in Nat
    BY <2>2, SizeFacts
  <2> QED BY <1>1, <1>5, <2>2, <2>3
<1>8. \A k \in 1..Len(converted) : BlockSize[AzMask] % BlockSize[converted[k].mask] = 0
  BY <1>5, <1>7, SizesDivide
<1>9. Fitting
  <2> SUFFICES ASSUME NEW j \in DOMAIN Ordered PROVE MaskOf(Ordered[j]) >= AzMask
    BY DEF Fitting
  <2>1. j \in 1..SingleAzLength
    <3>1. Ordered \in Seq(LegacySpec)
      BY <1>4, OrderedFacts
    <3> QED BY <1>3, <3>1
  <2>2. PICK k \in 1..Len(converted) : converted[k] = ConvertedSubnet(j)
    BY <1>1, <2>1 DEF CopyInv, Copying, Copied
  <2>3. converted[k].mask = out[j].cidr.mask
    BY <2>2 DEF ConvertedSubnet
  <2>4. out[j].cidr.mask = MaskOf(Ordered[j])
    BY <1>3, <2>1, ZoneFacts
  <2>5. PICK m \in Masks : m = MaskOf(Ordered[j]) /\ BlockSize[m] <= BlockSize[AzMask]
    BY <1>5, <1>7, <2>2, <2>3, <2>4
  <2>6. AzMask <= m /\ m \in Nat /\ AzMask \in Nat
    BY <1>5, <2>5, SmallerMask DEF Masks
  <2> QED BY <2>5, <2>6
<1>10. /\ GapsEndBlocks
       /\ \A p \in 1..SingleAzLength : SubnetBlock(p).base = out[p].cidr.addr
       /\ \A p \in 1..(SingleAzLength - 1) : out[p].cidr.addr < out[p + 1].cidr.addr
       /\ SingleAzLength > 0 => SubnetBlock(1).base = AzBase(1)
  BY <1>1, <1>9, ConvertedDiffers, DistinctZone
<1>11. AzBase(1) < Space
  <2>1. 1 \in 1..request.azCount
    BY <1>4, RequestFacts
  <2>2. AzBase(1) \in Nat /\ AzBase(1) + z <= Space
    BY <1>4, <1>5, <2>1, SlicesInSpace
  <2>3. Space \in Nat
    BY WidthAssumption, BlockSizeAssumption DEF Space
  <2> QED BY <2>2, <2>3
<1>12. Tidy
  BY <1>1, <1>10, <1>11 DEF Tidy
<1> QED BY <1>1, <1>6, <1>8, <1>9, <1>10, <1>12

LEMMA SlotsStayAligned ==
  ASSUME IInv, FirstInv, CopyInv, AutoInv,
         autoPhase = "published", request.specs # Undefined, NoHostRoute,
         NEW st, StandsAt(converted, st, SingleAzLength, Undefined)
  PROVE  /\ SlotsAligned(required)
         /\ \A k \in 1..Len(converted) : st[k] = AzBase(1) + Offset(required, k)
<1>1. /\ SizedInFull(required) /\ converted \in Seq(ConvertedSpec)
      /\ \A k \in 1..Len(converted) : converted[k].mask < Width
  BY DEF AutoInv, AutoAt, CopyInv, Copying
<1>2. /\ Starts(converted, st)
      /\ \A k \in 1..Len(converted) : st[k] % BlockSize[converted[k].mask] = 0
      /\ SingleAzLength \in 1..SingleAzLength
  BY DEF StandsAt, Laid
<1>3. Tidy
  BY PublishedIsTidy
<1>4. st[1] = AzBase(1)
  <2>1. SingleAzLength \in Nat
    BY <1>3, TidyFacts
  <2>2. SingleAzLength > 0
    BY <1>2, <2>1
  <2> QED BY <1>2, <2>2, PublishedIsTidy DEF Starts
<1>5. \A k \in 1..Len(converted) : st[k] = AzBase(1) + Offset(required, k)
  BY <1>1, <1>2, <1>4, StartsAre
<1>6. request \in Requests /\ AzMask <= Width
  <2>1. phase = "returned"
    BY <1>3 DEF Tidy, LegacyAccepted
  <2> QED BY <2>1, FirstZoneFacts DEF Placing
<1>7. ASSUME NEW a \in 1..request.azCount, NEW k \in 1..Len(converted)
      PROVE  (AzBase(a) + Offset(required, k)) % BlockSize[converted[k].mask] = 0
  <2>1. PICK o \in Nat : o = Offset(required, k)
    BY <1>1, <1>7, SumsGrow DEF SizedInFull
  <2>2. converted[k].mask \in Masks
    BY <1>1, <1>7, SumsGrow DEF SizedInFull
  <2>3. PICK z \in Nat \ {0} : z = BlockSize[converted[k].mask]
    BY <2>2, SizeFacts
  <2>4. 1 \in 1..request.azCount
    BY <1>6, RequestFacts
  <2>5. PICK x \in Nat, y \in Nat, s \in Nat \ {0} :
          /\ x = AzBase(1) /\ y = AzBase(a) /\ s = BlockSize[AzMask]
          /\ x % s = 0 /\ y % s = 0
    BY <1>6, <2>4, SlicesInSpace
  <2>6. s % z = 0
    BY <2>3, <2>5, PublishedIsTidy
  <2>7. x % z = 0 /\ y % z = 0
    BY <2>5, <2>6, MultipleOfMultiple
  <2>8. (o + x) % z = o % z /\ (o + y) % z = o % z
    BY <2>7, RemainderOfSum
  <2>9. (o + x) % z = 0
    <3>1. st[k] = o + x
      BY <1>5, <2>1, <2>5
    <3> QED BY <1>2, <2>3, <3>1
  <2>10. AzBase(a) + Offset(required, k) = o + y
    BY <2>1, <2>5
  <2> QED BY <2>3, <2>8, <2>9, <2>10
<1> QED BY <1>1, <1>5, <1>7 DEF SlotsAligned

LEMMA SameBlock ==
  ASSUME IInv, FirstInv, CopyInv, AutoInv,
         autoPhase = "published", request.specs # Undefined, NoHostRoute,
         NEW st, StandsAt(converted, st, SingleAzLength, Undefined),
         NEW a \in 1..request.azCount, NEW h \in 1..SingleAzLength,
         NEW k \in 1..Len(converted),
         converted[k] = ConvertedSubnet(h), Subnets(converted, k) = h
  PROVE  LET q == (a - 1) * SingleAzLength + h
         IN  /\ q \in DOMAIN out /\ out[q].az = a
             /\ out[q].type = converted[k].type /\ converted[k].type # "unused"
             /\ SubnetBlock(q) = Slot(required, a, k)
<1>1. Tidy /\ Fitting
  BY PublishedIsTidy
<1>2. phase = "returned"
  BY <1>1 DEF Tidy, LegacyAccepted
<1>3. Len(out) \in Nat /\ DOMAIN out = 1..Len(out) /\ request \in Requests /\ AzMask <= Width
  BY <1>2, FirstZoneFacts DEF Placing
<1>4. PICK q : q = (a - 1) * SingleAzLength + h
  OBVIOUS
<1>5. /\ q \in 1..Len(out) /\ out[q].az = a /\ out[q].type = out[h].type
      /\ out[q].cidr \in Cidr /\ out[q].cidr.mask = out[h].cidr.mask
      /\ SubnetBlock(q).base - AzBase(a) = SubnetBlock(h).base - AzBase(1)
  BY <1>1, <1>2, <1>4, ZonesRepeat
<1>6. /\ converted[k].type = out[h].type /\ converted[k].mask = out[h].cidr.mask
  BY DEF ConvertedSubnet
<1>7. out[h].type \in PlacedTypes /\ SubnetBlock(h).base \in Nat
  BY <1>1, TidyFacts
<1>8. converted[k].type # "unused"
  BY <1>6, <1>7 DEF PlacedTypes
<1>9. st[k] = SubnetBlock(h).base
  BY <1>8 DEF StandsAt, Laid
<1>10. st[k] = AzBase(1) + Offset(required, k)
  BY SlotsStayAligned
<1>11. SubnetBlock(q).base = AzBase(a) + Offset(required, k)
  <2>1. Offset(required, k) \in Nat
    BY SumsGrow DEF AutoInv, AutoAt, SizedInFull, CopyInv, Copying
  <2>2. 1 \in 1..request.azCount
    BY <1>3, RequestFacts
  <2>3. AzBase(a) \in Nat /\ AzBase(1) \in Nat
    BY <1>3, <2>2, SlicesInSpace
  <2>4. SubnetBlock(q).base \in Nat
    BY <1>5, BlockFacts DEF SubnetBlock
  <2> QED BY <1>5, <1>7, <1>9, <1>10, <2>1, <2>3, <2>4
<1>12. SubnetBlock(q) = [base |-> SubnetBlock(q).base, mask |-> out[q].cidr.mask]
  BY <1>5, BlockFacts DEF SubnetBlock
<1> QED BY <1>3, <1>4, <1>5, <1>6, <1>8, <1>11, <1>12 DEF Slot

LEMMA KeepsBlocks ==
  ASSUME IInv, FirstInv, ConversionInv, CopyInv, AutoInv
  PROVE  ConversionKeepsBlocks
<1> SUFFICES ASSUME autoPhase = "published", request.specs # Undefined, NoHostRoute
             PROVE  SameLayout
  BY DEF ConversionKeepsBlocks
<1>1. /\ Tidy /\ Fitting /\ converted # <<>> /\ position = SingleAzLength
  BY PublishedIsTidy
<1>2. PICK st : StandsAt(converted, st, SingleAzLength, Undefined)
  BY <1>1, ConversionComplete
<1>3. SlotsAligned(required)
  BY <1>2, SlotsStayAligned
<1>4. /\ Shown(required, published) /\ specs = autoRequest.specs /\ autoRequest = Handed
  BY <1>3 DEF AutoInv, AutoAt
<1>5. phase = "returned"
  BY <1>1 DEF Tidy, LegacyAccepted
<1>6. PICK c \in Nat \ {0}, n \in Nat, l \in Nat :
        c = request.azCount /\ n = SingleAzLength /\ l = Len(converted)
  <2>1. SingleAzLength \in Nat /\ request \in Requests
    BY <1>5, FirstZoneFacts DEF Placing
  <2>2. request.azCount \in Nat \ {0}
    BY <2>1, RequestFacts
  <2>3. Len(converted) \in Nat
    BY DEF CopyInv, Copying
  <2> QED BY <2>1, <2>2, <2>3
<1>7. DOMAIN out = 1..(c * n)
  BY <1>5, <1>6, FirstZoneFacts
<1>8. published = [p \in 1..(c * l) |->
                     [az |-> ((p - 1) \div l) + 1, index |-> ((p - 1) % l) + 1,
                      block |-> Slot(required, ((p - 1) \div l) + 1, ((p - 1) % l) + 1)]]
  BY <1>4, <1>6 DEF Shown
<1>9. \A k \in 1..l : specs[k].name = converted[k].type
  <2>1. request \in Requests /\ AzMask <= Width /\ converted \in Seq(ConvertedSpec)
    BY <1>5, FirstZoneFacts DEF Placing, CopyInv, Copying
  <2>2. \A k \in 1..l : specs[k] = [name |-> converted[k].type, mask |-> converted[k].mask]
    BY <1>4, <1>6, <2>1, AutoFacts
  <2> TAKE k \in 1..l
  <2>3. specs[k] = [name |-> converted[k].type, mask |-> converted[k].mask]
    BY <2>2
  <2> QED BY <2>3
<1> DEFINE FromAuto(p) == [az |-> published[p].az, type |-> specs[published[p].index].name,
                       block |-> published[p].block]
           FromLegacy(q) == [az |-> out[q].az, type |-> out[q].type, block |-> SubnetBlock(q)]
<1>10. ASSUME NEW a \in 1..c, NEW k \in 1..l, NEW h \in 1..n,
              converted[k] = ConvertedSubnet(h), Subnets(converted, k) = h,
              NEW p \in 1..(c * l), (p - 1) \div l = a - 1, (p - 1) % l = k - 1,
              NEW q, q = (a - 1) * n + h
       PROVE  q \in 1..(c * n) /\ FromAuto(p) = FromLegacy(q) /\ FromAuto(p).type # "unused"
  <2>1. /\ q \in DOMAIN out /\ out[q].az = a
        /\ out[q].type = converted[k].type /\ converted[k].type # "unused"
        /\ SubnetBlock(q) = Slot(required, a, k)
    BY <1>2, <1>6, <1>10, SameBlock
  <2>2. ((p - 1) \div l) + 1 = a /\ ((p - 1) % l) + 1 = k
    BY <1>10
  <2>3. published[p] = [az |-> a, index |-> k, block |-> Slot(required, a, k)]
    BY <1>8, <2>2
  <2>4. FromAuto(p) = [az |-> a, type |-> converted[k].type, block |-> Slot(required, a, k)]
    BY <1>9, <2>3
  <2> QED BY <1>7, <2>1, <2>4
<1>11. ASSUME NEW p \in 1..(c * l), FromAuto(p).type # "unused"
       PROVE  \E q \in 1..(c * n) : FromAuto(p) = FromLegacy(q)
  <2>1. PICK a \in 1..c, k \in 1..l :
          a = ((p - 1) \div l) + 1 /\ k = ((p - 1) % l) + 1
    BY SlotZone
  <2>2. (p - 1) \div l = a - 1 /\ (p - 1) % l = k - 1
    <3>1. l \in Nat \ {0} /\ p - 1 \in Nat
      <4>1. l \in Nat \ {0}
        BY <2>1
      <4>2. p \in Nat /\ p >= 1
        <5>1. PICK y \in Nat : y = c * l
          OBVIOUS
        <5> QED BY <5>1
      <4> QED BY <4>1, <4>2
    <3>2. (p - 1) \div l \in Nat /\ (p - 1) % l \in Nat
      BY <3>1, DivisionFacts
    <3> QED BY <2>1, <3>2
  <2>3. published[p].index = k
    BY <1>8, <2>1
  <2>4. converted[k].type # "unused"
    BY <1>9, <1>11, <2>3
  <2>5. PICK h \in 1..n : h = Subnets(converted, k) /\ converted[k] = ConvertedSubnet(h)
    BY <1>1, <1>6, <2>4 DEF CopyInv, Copying, Copied
  <2>6. PICK q : q = (a - 1) * n + h
    OBVIOUS
  <2> HIDE DEF FromAuto, FromLegacy
  <2> QED BY <1>10, <2>2, <2>5, <2>6
<1>12. ASSUME NEW q \in 1..(c * n)
       PROVE  \E p \in 1..(c * l) : FromAuto(p) = FromLegacy(q) /\ FromAuto(p).type # "unused"
  <2>1. PICK a \in 1..c, h \in 1..n :
          a = ((q - 1) \div n) + 1 /\ h = ((q - 1) % n) + 1
    BY SlotZone
  <2>2. q = (a - 1) * n + h
    <3>1. n \in Nat \ {0} /\ q - 1 \in Nat
      <4>1. n \in Nat \ {0}
        BY <2>1
      <4>2. q \in Nat /\ q >= 1
        <5>1. PICK y \in Nat : y = c * n
          OBVIOUS
        <5> QED BY <5>1
      <4> QED BY <4>1, <4>2
    <3>2. PICK x \in Nat : x = q - 1
      BY <3>1
    <3>3. /\ x \div n \in Nat /\ x % n \in 0..(n - 1)
          /\ x = n * (x \div n) + (x % n)
      BY <3>1, DivisionFacts
    <3>4. PICK d \in Nat, r \in 0..(n - 1) :
            d = x \div n /\ r = x % n /\ x = n * d + r
      BY <3>3
    <3>5. a - 1 = d /\ h = r + 1
      BY <2>1, <3>2, <3>4
    <3>6. (a - 1) * n = n * d
      BY <3>5
    <3>7. PICK y \in Nat : y = n * d
      BY <3>4
    <3>8. q - 1 = y + r /\ q \in Int
      <4>1. PICK w \in Nat : w = c * n
        OBVIOUS
      <4> QED BY <3>2, <3>4, <3>7, <4>1
    <3> QED BY <3>4, <3>5, <3>6, <3>7, <3>8
  <2>3. PICK k \in 1..l : converted[k] = ConvertedSubnet(h) /\ Subnets(converted, k) = h
    BY <1>1, <1>6 DEF CopyInv, Copying, Copied
  <2>4. PICK p : p = (a - 1) * l + k
    OBVIOUS
  <2>5. p \in 1..(c * l) /\ (p - 1) \div l = a - 1 /\ (p - 1) % l = k - 1
    BY <2>4, ZoneSlot
  <2>6. /\ FromAuto(p) = FromLegacy((a - 1) * n + h)
        /\ FromAuto(p).type # "unused"
    <3> HIDE DEF FromAuto, FromLegacy
    <3> QED BY <1>10, <2>3, <2>5
  <2> HIDE DEF FromAuto, FromLegacy
  <2> QED BY <2>2, <2>5, <2>6
<1>13. DOMAIN published = 1..(c * l)
  BY <1>8
<1>14. AutoLayout = {FromAuto(p) : p \in 1..(c * l)} /\ LegacyLayout = {FromLegacy(q) : q \in 1..(c * n)}
  BY <1>7, <1>13 DEF AutoLayout, LegacyLayout
<1> HIDE DEF FromAuto, FromLegacy
<1>15. {o \in AutoLayout : o.type # "unused"} = LegacyLayout
  BY <1>11, <1>12, <1>14
<1> QED BY <1>15 DEF SameLayout

-----------------------------------------------------------------------------
(* What holds at every moment of the conversion and of Auto's run.         *)
CInv == IInv /\ FirstInv /\ ConversionInv /\ CopyInv /\ AutoInv

LEMMA ConversionStarts == ConversionInit => CInv
<1> SUFFICES ASSUME ConversionInit PROVE CInv
  OBVIOUS
<1>1. IInv /\ FirstInv /\ ConversionInv
  BY InitInv, FirstInitInv DEF ConversionInit, Init, ConversionInv, Unstarted
<1>2. converted = <<>> /\ position = 0 /\ gap = Undefined
  BY DEF ConversionInit
<1>3. CopyInv
  BY <1>2, CopyingEmpty DEF CopyInv
<1>4. AutoInv
  BY DEF ConversionInit, AutoInv, AutoAt, Fresh
<1> QED BY <1>1, <1>3, <1>4 DEF CInv

LEMMA ConversionGoesOn == CInv /\ [ConversionNext]_conversionVars => CInv'
<1> SUFFICES ASSUME CInv, [ConversionNext]_conversionVars PROVE CInv'
  OBVIOUS
<1>1. IInv /\ FirstInv /\ ConversionInv /\ CopyInv /\ AutoInv
  BY DEF CInv
<1>2. TypeOK /\ [Next]_vars
  BY <1>1, ConversionIsLegacy DEF IInv
<1>3. IInv' /\ FirstInv' /\ ConversionInv' /\ CopyInv'
  BY <1>1, <1>2, LegacyStepInv, FirstStepInv, ConversionStepInv, CopyStepInv
<1>4. AutoInv'
  BY <1>1, AutoStepInv
<1> QED BY <1>3, <1>4 DEF CInv

(* findSubnetGap and the conversion: the list printed for a regular layout *)
(* covers every address between its subnets and moves none of them.        *)
THEOREM GapsStayFilled == ConversionSpec => []GapsAreFilled
<1>1. CInv => GapsAreFilled
  BY ConvertedFills DEF CInv
<1> QED BY <1>1, ConversionStarts, ConversionGoesOn, PTL DEF ConversionSpec

(* Vpc.decideSubnetSpecs: whenever "Auto" takes the list which the         *)
(* conversion printed, every subnet of every zone keeps its block, and     *)
(* "Auto" refuses no such list of a regular layout within its slices.      *)
THEOREM LayoutStaysKept == ConversionSpec => []AutoKeepsLayout
<1>1. CInv => AutoKeepsLayout
  BY KeepsBlocks, AcceptsWhatFits DEF CInv, AutoKeepsLayout
<1> QED BY <1>1, ConversionStarts, ConversionGoesOn, PTL DEF ConversionSpec
=============================================================================
