------------------------- MODULE SubnetLayoutProofs -------------------------
(***************************************************************************)
(* The properties of the "Auto" allocator and of the decision around it,   *)
(* for every set of inputs and every width: first what the block operators *)
(* compute, then the call of the allocator, then what is made of it.       *)
(***************************************************************************)
EXTENDS SubnetLayout, SequenceTheorems, FiniteSetTheorems,
        WellFoundedInduction, TLAPS

-----------------------------------------------------------------------------
(* Alignment of blocks.                                                    *)
(* Quotient and remainder of an address and a size.                        *)
LEMMA DivisionFacts ==
  ASSUME NEW x \in Nat, NEW s \in Nat \ {0}
  PROVE  /\ x % s \in 0..(s - 1)
         /\ x \div s \in Nat
         /\ x = s * (x \div s) + (x % s)
OBVIOUS

(* Rounding down to a multiple.                                            *)
LEMMA RoundDown ==
  ASSUME NEW x \in Nat, NEW s \in Nat \ {0}
  PROVE  /\ x - (x % s) \in Nat
         /\ x - (x % s) <= x
         /\ x < x - (x % s) + s
         /\ (x - (x % s)) % s = 0
<1>1. /\ x % s \in 0..(s - 1)
      /\ x \div s \in Nat
      /\ x = s * (x \div s) + (x % s)
  BY DivisionFacts
<1>2. x - (x % s) = s * (x \div s)
  BY <1>1
<1>3. s * (x \div s) \in Nat
  BY <1>1
<1>4. (s * (x \div s)) % s = 0
  BY <1>1
<1>5. QED
  BY <1>1, <1>2, <1>3, <1>4

(* A multiple is a product.                                                *)
LEMMA MultipleIsProduct ==
  ASSUME NEW x \in Nat, NEW s \in Nat \ {0}, x % s = 0
  PROVE  \E q \in Nat : x = s * q
<1>1. x \div s \in Nat /\ x = s * (x \div s)
  BY DivisionFacts
<1>2. QED
  BY <1>1

LEMMA ProductIsMultiple ==
  ASSUME NEW q \in Nat, NEW s \in Nat \ {0}
  PROVE  (s * q) % s = 0
OBVIOUS

(* Two multiples are at least one size apart.                              *)
LEMMA MultiplesApart ==
  ASSUME NEW x \in Nat, NEW y \in Nat, NEW s \in Nat \ {0},
         x % s = 0, y % s = 0, x < y
  PROVE  x + s <= y
<1>1. PICK p \in Nat : x = s * p
  BY MultipleIsProduct
<1>2. PICK q \in Nat : y = s * q
  BY MultipleIsProduct
<1>3. p < q
  BY <1>1, <1>2
<1>4. s * (p + 1) <= s * q
  BY <1>3
<1>5. QED
  BY <1>1, <1>2, <1>4

LEMMA SumOfMultiples ==
  ASSUME NEW x \in Nat, NEW y \in Nat, NEW s \in Nat \ {0},
         x % s = 0, y % s = 0
  PROVE  (x + y) % s = 0
<1>1. PICK p \in Nat : x = s * p
  BY MultipleIsProduct
<1>2. PICK q \in Nat : y = s * q
  BY MultipleIsProduct
<1>3. x + y = s * (p + q) /\ p + q \in Nat
  BY <1>1, <1>2
<1>4. QED
  BY <1>3, ProductIsMultiple

LEMMA MultipleOfMultiple ==
  ASSUME NEW x \in Nat, NEW t \in Nat \ {0}, NEW s \in Nat \ {0},
         x % t = 0, t % s = 0
  PROVE  x % s = 0
<1>1. PICK p \in Nat : x = t * p
  BY MultipleIsProduct
<1>2. PICK q \in Nat : t = s * q
  BY MultipleIsProduct
<1>3. x = s * (q * p) /\ q * p \in Nat
  BY <1>1, <1>2
<1>4. QED
  BY <1>3, ProductIsMultiple

-----------------------------------------------------------------------------
LEMMA SizeFacts ==
  ASSUME NEW m \in Masks
  PROVE  /\ m \in 0..Width
         /\ BlockSize[m] \in Nat \ {0}
         /\ Space \in Nat \ {0}
         /\ Space % BlockSize[m] = 0
         /\ m < Width => BlockSize[m] % 2 = 0
         /\ m <= Width - 2 => BlockSize[m] >= 4
<1>1. m \in 0..Width /\ 0 \in 0..Width /\ 0 <= m
  BY WidthAssumption DEF Masks
<1>2. BlockSize[m] \in Nat \ {0} /\ Space \in Nat \ {0}
  BY <1>1, BlockSizeAssumption DEF Space
<1>3. Space % BlockSize[m] = 0
  BY <1>1, BlockSizeAssumption DEF Space
<1>4. ASSUME m < Width PROVE BlockSize[m] % 2 = 0
  <2>1. m \in 0..(Width - 1) /\ m + 1 \in 0..Width
    BY <1>1, <1>4, WidthAssumption
  <2>2. BlockSize[m] = 2 * BlockSize[m + 1] /\ BlockSize[m + 1] \in Nat
    BY <2>1, BlockSizeAssumption
  <2>3. QED
    BY <2>2
<1>5. ASSUME m <= Width - 2 PROVE BlockSize[m] >= 4
  <2>1. /\ m \in 0..(Width - 1) /\ m + 1 \in 0..(Width - 1)
        /\ m + 2 \in 0..Width /\ (m + 1) + 1 = m + 2
    BY <1>1, <1>5, WidthAssumption
  <2>2. /\ BlockSize[m] = 2 * BlockSize[m + 1]
        /\ BlockSize[m + 1] = 2 * BlockSize[m + 2]
        /\ BlockSize[m + 1] \in Nat /\ BlockSize[m + 2] \in Nat \ {0}
    BY <2>1, BlockSizeAssumption
  <2>3. QED
    BY <2>2
<1>6. QED
  BY <1>1, <1>2, <1>3, <1>4, <1>5

(* A shorter mask is a larger, and a divisible, size.                      *)
LEMMA SizeOrder ==
  ASSUME NEW m \in Masks, NEW n \in Masks
  PROVE  /\ m <= n => BlockSize[m] % BlockSize[n] = 0
         /\ BlockSize[n] <= BlockSize[m] => BlockSize[m] % BlockSize[n] = 0
<1>1. /\ m \in 0..Width /\ n \in 0..Width
      /\ BlockSize[m] \in Nat \ {0} /\ BlockSize[n] \in Nat \ {0}
  BY SizeFacts
<1>2. ASSUME m <= n PROVE BlockSize[m] % BlockSize[n] = 0
  BY <1>1, <1>2, BlockSizeAssumption
<1>3. ASSUME BlockSize[n] <= BlockSize[m], ~(m <= n)
      PROVE  BlockSize[m] % BlockSize[n] = 0
  <2>1. BlockSize[n] % BlockSize[m] = 0
    BY <1>1, <1>3, BlockSizeAssumption DEF Masks
  <2>2. PICK q \in Nat : BlockSize[n] = BlockSize[m] * q
    BY <1>1, <2>1, MultipleIsProduct
  <2>3. q >= 1
    BY <1>1, <2>2
  <2>4. BlockSize[m] <= BlockSize[n]
    BY <1>1, <2>2, <2>3
  <2>5. BlockSize[m] = BlockSize[n] * 1
    BY <1>1, <1>3, <2>4
  <2>6. QED
    BY <1>1, <2>5, ProductIsMultiple
<1>4. QED
  BY <1>2, <1>3

-----------------------------------------------------------------------------
(* Netmask(x, m) is the aligned block around x.                            *)
LEMMA NetmaskFacts ==
  ASSUME NEW x \in Nat, NEW m \in Masks
  PROVE  LET b == Netmask(x, m) IN
         /\ b.mask = m
         /\ b.base \in Nat
         /\ b.base <= x
         /\ x < End(b)
         /\ End(b) = b.base + BlockSize[m]
         /\ b.base % BlockSize[m] = 0
         /\ x < Space => b \in Block
<1> DEFINE b == Netmask(x, m)
<1>1. BlockSize[m] \in Nat \ {0}
  BY SizeFacts
<1>2. b.mask = m /\ b.base = x - (x % BlockSize[m])
  BY DEF Netmask
<1>3. /\ b.base \in Nat
      /\ b.base <= x
      /\ x < b.base + BlockSize[m]
      /\ b.base % BlockSize[m] = 0
  BY <1>1, <1>2, RoundDown
<1>4. End(b) = b.base + BlockSize[m]
  BY <1>2 DEF End, Size
<1>5. ASSUME x < Space PROVE b \in Block
  <2>1. Space \in Nat
    BY SizeFacts
  <2>2. b.base \in Addresses
    BY <1>3, <1>5, <2>1 DEF Addresses
  <2>3. b = [base |-> b.base, mask |-> b.mask]
    BY DEF Netmask
  <2>4. QED
    BY <1>2, <2>2, <2>3 DEF Block
<1>6. QED
  BY <1>2, <1>3, <1>4, <1>5

(* The last host of an aligned block is inside it, at most two addresses   *)
(* before its end.                                                         *)
LEMMA LastHostFacts ==
  ASSUME NEW b \in Block
  PROVE  /\ b.base \in Nat /\ b.mask \in Masks
         /\ Size(b) \in Nat \ {0}
         /\ End(b) \in Nat
         /\ LastHost(b) \in Nat
         /\ b.base <= LastHost(b)
         /\ End(b) - 2 <= LastHost(b)
         /\ LastHost(b) < End(b)
<1>1. b.base \in Nat /\ b.mask \in Masks
  BY SizeFacts DEF Block, Addresses
<1>2. /\ Size(b) \in Nat \ {0}
      /\ b.mask <= Width - 2 => Size(b) >= 4
  BY <1>1, SizeFacts DEF Size
<1>3. End(b) = b.base + Size(b)
  BY DEF End
<1>4. CASE b.mask <= Width - 2
  BY <1>1, <1>2, <1>3, <1>4 DEF LastHost
<1>5. CASE ~(b.mask <= Width - 2)
  BY <1>1, <1>2, <1>3, <1>5 DEF LastHost
<1>6. QED
  BY <1>1, <1>2, <1>3, <1>4, <1>5

(* Netmask.next(), away from the end of the address space.                 *)
LEMMA NextBlockFacts ==
  ASSUME NEW b \in Block, b.base % Size(b) = 0, End(b) < Space
  PROVE  /\ NextBlock(b) = [base |-> End(b), mask |-> b.mask]
         /\ NextBlock(b) \in Block
         /\ End(b) % Size(b) = 0
<1>1. /\ b.base \in Nat /\ b.mask \in Masks
      /\ Size(b) \in Nat \ {0}
      /\ End(b) \in Nat
      /\ Space \in Nat \ {0}
  BY LastHostFacts, SizeFacts
<1>2. Size(b) % Size(b) = 0
  BY <1>1
<1>3. End(b) % Size(b) = 0
  BY <1>1, <1>2, SumOfMultiples DEF End
<1>4. End(b) % Space = End(b)
  BY <1>1
<1>5. NextBlock(b) = [base |-> End(b), mask |-> b.mask]
  BY <1>1, <1>3, <1>4 DEF NextBlock, Netmask, Size
<1>6. NextBlock(b) \in Block
  BY <1>1, <1>4, NetmaskFacts DEF NextBlock
<1>7. QED
  BY <1>3, <1>5, <1>6

-----------------------------------------------------------------------------
(* nextNetmask.  The block that follows `prev` starts after prev's last    *)
(* host and less than one new size after prev's end; at prev's end when    *)
(* that is a multiple of the new size; and never before it unless one of   *)
(* the two is a single address.                                            *)
LEMMA NextNetmaskFacts ==
  ASSUME NEW prev \in Block, NEW m \in Masks,
         prev.base % Size(prev) = 0,
         End(prev) + BlockSize[m] <= Space
  PROVE  LET b == NextNetmask(prev, m) IN
         /\ b \in Block
         /\ b.mask = m
         /\ Size(b) = BlockSize[m]
         /\ b.base % BlockSize[m] = 0
         /\ prev.base < b.base
         /\ End(b) <= End(prev) + 2 * BlockSize[m]
         /\ End(prev) % BlockSize[m] = 0 => b.base <= End(prev)
         /\ prev.mask < Width /\ m < Width => End(prev) <= b.base
<1> DEFINE x == LastHost(prev)
           c == Netmask(x, m)
           s == BlockSize[m]
           b == NextNetmask(prev, m)
<1>1. /\ prev.base \in Nat /\ prev.mask \in Masks
      /\ Size(prev) \in Nat \ {0}
      /\ End(prev) \in Nat /\ x \in Nat
      /\ prev.base <= x /\ End(prev) - 2 <= x /\ x < End(prev)
  BY LastHostFacts
<1>2. s \in Nat \ {0} /\ Space \in Nat \ {0}
  BY SizeFacts
<1>3. x < Space
  BY <1>1, <1>2
<1>4. /\ c \in Block /\ c.mask = m /\ c.base \in Nat /\ c.base <= x
      /\ x < End(c) /\ End(c) = c.base + s /\ c.base % s = 0
  BY <1>1, <1>3, NetmaskFacts
<1>5. Size(c) = s
  BY <1>4 DEF Size
<1>6. End(c) < Space
  BY <1>1, <1>2, <1>4
<1>7. /\ b = [base |-> End(c), mask |-> m]
      /\ b \in Block
      /\ End(c) % s = 0
  BY <1>4, <1>5, <1>6, NextBlockFacts DEF NextNetmask
<1>8. b.base = End(c) /\ b.mask = m /\ Size(b) = s /\ End(b) = End(c) + s
  BY <1>7 DEF Size, End
<1>9. prev.base < b.base /\ End(b) <= End(prev) + 2 * s
  BY <1>1, <1>2, <1>4, <1>8
<1>10. ASSUME End(prev) % s = 0 PROVE b.base <= End(prev)
  <2>1. c.base < End(prev)
    BY <1>1, <1>4
  <2>2. c.base + s <= End(prev)
    BY <1>1, <1>2, <1>4, <1>10, <2>1, MultiplesApart
  <2>3. QED
    BY <1>4, <1>8, <2>2
<1>11. ASSUME prev.mask < Width, m < Width PROVE End(prev) <= b.base
  <2>1. s % 2 = 0 /\ Size(prev) % 2 = 0
    BY <1>1, <1>11, SizeFacts DEF Size
  <2>2. prev.base % 2 = 0 /\ End(c) % 2 = 0
    BY <1>1, <1>2, <1>4, <1>7, <2>1, MultipleOfMultiple
  <2>3. End(prev) % 2 = 0
    BY <1>1, <2>1, <2>2, SumOfMultiples DEF End
  <2>4. End(c) >= End(prev) - 1 /\ End(c) \in Nat
    BY <1>1, <1>2, <1>4
  <2>5. QED
    BY <1>1, <1>8, <2>2, <2>3, <2>4
<1>12. QED
  BY <1>7, <1>8, <1>9, <1>10, <1>11

-----------------------------------------------------------------------------
(* The inductive invariant.                                                *)

(* The running totals of the reduce.                                       *)
Before(k) == IF k = 1 THEN 0 ELSE required[k - 1]

Sized ==
  /\ specs # <<>>
  /\ AzBitmask(request) \in Masks
  /\ Len(required) <= Len(specs)
  /\ \A k \in 1..Len(required) :
       /\ MaskOf(k) \in Masks
       /\ required[k] = Before(k) + BlockSize[MaskOf(k)]
  /\ \A j, k \in 1..Len(required) : j <= k => required[j] <= required[k]

(* What the size check has established, and where the two cursors are.     *)
Cursor ==
  /\ Len(required) = Len(specs)
  /\ \A k \in 1..Len(specs) : required[k] <= AzSize
  /\ az <= request.azCount + 1
  /\ azBlock = [base |-> SliceBase(az), mask |-> AzBitmask(request)]
  /\ index <= Len(specs) + 1
  /\ current = Undefined <=> index = 1
  /\ index > 1 => az <= request.azCount /\ current = BlockOf(az, index - 1)

Reached(a, i) == a < az \/ (a = az /\ i < index)

Filled ==
  \A a \in Zones, i \in 1..Len(specs) :
    ID(a, i) \in DOMAIN allocation <=> Reached(a, i)

EntryOK(a, i) ==
  LET b == BlockOf(a, i)
  IN  /\ b.mask = MaskOf(i)
      /\ b.base % Size(b) = 0
      /\ SliceBase(a) <= b.base
      /\ End(b) <= SliceBase(a) + 2 * required[i]
      /\ DescendingUpTo(i) => End(b) <= SliceBase(a) + required[i]

Entries ==
  \A a \in Zones, i \in 1..Len(specs) : Reached(a, i) => EntryOK(a, i)

Ascending ==
  ~HasHostRoute =>
    \A a \in Zones, i, j \in 1..Len(specs) :
      i < j /\ Reached(a, j) => End(BlockOf(a, i)) <= BlockOf(a, j).base

IInv ==
  /\ TypeOK
  /\ phase \in {"called", "sizing", "failed"} =>
       /\ allocation = <<>>
       /\ az = 1 /\ index = 1 /\ current = Undefined
  /\ phase = "called" => required = <<>>
  /\ phase \in {"sizing", "placing", "published"} => Sized
  /\ phase \in {"placing", "published"} =>
       Cursor /\ Filled /\ Entries /\ Ascending
  /\ phase = "published" => az = request.azCount + 1

-----------------------------------------------------------------------------
LEMMA RequestFacts ==
  ASSUME TypeOK
  PROVE  /\ request \in Request
         /\ request.vpc \in Block
         /\ request.vpc.base \in Nat
         /\ request.azCount \in Nat
         /\ request.specs \in Seq(SubnetSpecInput) \cup {Undefined}
         /\ AzBitmask(request) \in Masks =>
              request.vpc.base + (request.azCount + 1) * AzSize <= Space
<1>1. IsCall(request)
  BY DEF TypeOK
<1>2. request \in Request
  BY <1>1 DEF IsCall
<1>3. request.vpc \in Block
  BY <1>2 DEF Request
<1>4. request.vpc.base \in Nat
  BY <1>3, LastHostFacts
<1>5. QED
  BY <1>1, <1>2, <1>3, <1>4 DEF IsCall, Request, AzSize

(* The slices: aligned, adjacent, and two of them fit above every zone's.  *)
LEMMA SliceFacts ==
  ASSUME TypeOK, AzBitmask(request) \in Masks, NEW a \in Nat \ {0}
  PROVE  /\ AzSize \in Nat \ {0}
         /\ SliceBase(a) \in Nat
         /\ SliceBase(a) % AzSize = 0
         /\ SliceBase(a + 1) = SliceBase(a) + AzSize
         /\ SliceBase(a + 2) = SliceBase(a) + 2 * AzSize
         /\ a <= request.azCount => SliceBase(a) + 2 * AzSize <= Space
         /\ SliceBase(1) = Netmask(request.vpc.base, AzBitmask(request)).base
<1> DEFINE m == AzBitmask(request)
           b0 == Netmask(request.vpc.base, m).base
<1>1. /\ request.vpc.base \in Nat /\ request.azCount \in Nat
      /\ request.vpc.base + (request.azCount + 1) * AzSize <= Space
  BY RequestFacts
<1>2. AzSize \in Nat \ {0} /\ AzSize = BlockSize[m] /\ Space \in Nat
  BY SizeFacts DEF AzSize
<1>3. b0 \in Nat /\ b0 <= request.vpc.base /\ b0 % AzSize = 0
  BY <1>1, <1>2, NetmaskFacts
<1>4. /\ SliceBase(a) = b0 + ((a - 1) * AzSize)
      /\ SliceBase(a + 1) = b0 + (((a + 1) - 1) * AzSize)
      /\ SliceBase(a + 2) = b0 + (((a + 2) - 1) * AzSize)
      /\ SliceBase(1) = b0 + ((1 - 1) * AzSize)
  BY DEF SliceBase
<1> HIDE DEF b0
<1>5. (a - 1) * AzSize \in Nat
  BY <1>2
<1>6. SliceBase(a) \in Nat
  BY <1>3, <1>4, <1>5
<1>7. SliceBase(a) % AzSize = 0
  <2> DEFINE p == (a - 1) * AzSize
  <2>1. a - 1 \in Nat
    OBVIOUS
  <2>2. (AzSize * (a - 1)) % AzSize = 0
    BY <1>2, <2>1, ProductIsMultiple
  <2>3. p = AzSize * (a - 1)
    BY <1>2, <2>1
  <2>4. p % AzSize = 0
    BY <2>2, <2>3
  <2>5. p \in Nat
    BY <1>5
  <2> HIDE DEF p
  <2>6. (b0 + p) % AzSize = 0
    BY <1>2, <1>3, <2>4, <2>5, SumOfMultiples
  <2>7. QED
    BY <1>4, <2>6 DEF p
<1>8. /\ ((a + 1) - 1) * AzSize = (a - 1) * AzSize + AzSize
      /\ ((a + 2) - 1) * AzSize = (a - 1) * AzSize + 2 * AzSize
  BY <1>2
<1>9. /\ SliceBase(a + 1) = SliceBase(a) + AzSize
      /\ SliceBase(a + 2) = SliceBase(a) + 2 * AzSize
  BY <1>2, <1>3, <1>4, <1>5, <1>8
<1>10. ASSUME a <= request.azCount
       PROVE  SliceBase(a) + 2 * AzSize <= Space
  <2>1. (a + 1) * AzSize <= (request.azCount + 1) * AzSize
    BY <1>1, <1>2, <1>10
  <2>2. (a + 1) * AzSize = (a - 1) * AzSize + 2 * AzSize
    BY <1>2
  <2>3. (request.azCount + 1) * AzSize \in Nat
    BY <1>1, <1>2
  <2>4. QED
    BY <1>1, <1>2, <1>3, <1>4, <1>5, <2>1, <2>2, <2>3
<1>11. SliceBase(1) = b0
  BY <1>2, <1>3, <1>4
<1>12. QED
  BY <1>2, <1>6, <1>7, <1>9, <1>10, <1>11 DEF b0

-----------------------------------------------------------------------------
LEMMA InitInv == Init => IInv
<1> SUFFICES ASSUME Init PROVE IInv
  OBVIOUS
<1>1. DOMAIN <<>> = {}
  OBVIOUS
<1>2. TypeOK
  BY <1>1, RequestAssumption DEF Init, TypeOK, Phases
<1>3. QED
  BY <1>2 DEF Init, IInv

LEMMA ThrowInv ==
  ASSUME IInv, Throw, phase \in {"called", "sizing"}
  PROVE  IInv'
<1>1. TypeOK'
  BY DEF IInv, Throw, TypeOK, Phases
<1>2. QED
  BY <1>1 DEF IInv, Throw

LEMMA ChooseSpecsInv ==
  ASSUME IInv, ChooseSpecs
  PROVE  IInv'
<1> DEFINE m == AzBitmask(request)
<1>1. phase = "called" /\ TypeOK
  BY DEF ChooseSpecs, IInv
<1>2. CASE Throw
  BY <1>1, <1>2, ThrowInv
<1>3. CASE ~Throw
  <2>1. /\ m \in Masks
        /\ request.specs = Undefined => m <= SmallestAzMask
        /\ request.specs # Undefined => request.specs # <<>>
        /\ specs' = IF request.specs = Undefined
                    THEN DefaultSubnetInputs(m) ELSE request.specs
        /\ phase' = "sizing"
        /\ UNCHANGED <<request, required, az, index, azBlock, current,
                       allocation, published>>
    <3>1. /\ m \in Masks
          /\ ~(request.specs = Undefined /\ ~DefaultsAllowed(m))
          /\ ~(request.specs # Undefined /\ request.specs = <<>>)
          /\ specs' = IF request.specs = Undefined
                      THEN DefaultSubnetInputs(m) ELSE request.specs
          /\ phase' = "sizing"
          /\ UNCHANGED <<request, required, az, index, azBlock, current,
                         allocation, published>>
      BY <1>3 DEF ChooseSpecs
    <3>2. m \in Int /\ SmallestAzMask \in Int
      BY <3>1, WidthAssumption, DefaultsAssumption DEF Masks
    <3>3. QED
      BY <3>1, <3>2 DEF DefaultsAllowed
  <2>2. specs' \in Seq(SubnetSpecInput) /\ specs' # <<>>
    <3>1. CASE request.specs = Undefined
      <4> DEFINE d == DefaultSubnetInputs(m)
      <4>1. DefaultTypes \in Seq(Names) /\ DOMAIN DefaultTypes = 1..2
        BY DefaultsAssumption
      <4>2. m \in Nat /\ m <= Width - 2 /\ Width \in Nat
        BY <2>1, <3>1, DefaultsAssumption, WidthAssumption DEF Masks
      <4>3. /\ Larger(m, LargestDefaultMask) \in Nat
            /\ Larger(m, LargestDefaultMask) <= Width - 2
        BY <4>2, DefaultsAssumption DEF Larger
      <4>4. \A i \in 1..2 : Larger(m, LargestDefaultMask) + i \in Masks
        BY <4>2, <4>3 DEF Masks
      <4>5. ASSUME NEW i \in 1..2 PROVE d[i] \in SubnetSpecInput
        <5>1. DefaultTypes[i] \in Names
          BY <4>1, DefaultsAssumption
        <5>2. d[i] = [name |-> DefaultTypes[i],
                      mask |-> Larger(m, LargestDefaultMask) + i]
          BY <4>1 DEF DefaultSubnetInputs
        <5>3. QED
          BY <4>4, <5>1, <5>2 DEF SubnetSpecInput
      <4>6. d = [i \in 1..2 |-> d[i]]
        BY <4>1 DEF DefaultSubnetInputs
      <4>7. d \in Seq(SubnetSpecInput) /\ Len(d) = 2
        <5> HIDE DEF d
        <5>1. QED BY <4>5, <4>6, IsASeq
      <4>8. QED
        BY <2>1, <3>1, <4>7
    <3>2. CASE request.specs # Undefined
      BY <1>1, <2>1, <3>2, RequestFacts
    <3>3. QED
      BY <3>1, <3>2
  <2>3. required' = <<>> /\ Len(required') = 0
    BY <1>1, <2>1 DEF IInv
  <2>4. TypeOK'
    BY <1>1, <2>1, <2>2 DEF TypeOK, Phases
  <2>5. AzBitmask(request)' \in Masks
    BY <2>1
  <2>6. Sized'
    <3>1. Len(specs') \in Nat
      BY <2>2
    <3>2. QED
      BY <2>2, <2>3, <2>5, <3>1 DEF Sized
  <2>7. QED
    BY <1>1, <2>1, <2>4, <2>6 DEF IInv
<1>4. QED
  BY <1>2, <1>3

(* What depends only on the request and the specs stays the same in every  *)
(* step after the specs are chosen.                                        *)
LEMMA Settled ==
  ASSUME UNCHANGED <<request, specs>>
  PROVE  /\ AzBitmask(request)' = AzBitmask(request)
         /\ AzSize' = AzSize
         /\ \A a : SliceBase(a)' = SliceBase(a)
         /\ \A k : MaskOf(k)' = MaskOf(k)
         /\ \A k : DescendingUpTo(k)' <=> DescendingUpTo(k)
         /\ \A a, k : ID(a, k)' = ID(a, k)
         /\ HasHostRoute' <=> HasHostRoute
         /\ Zones' = Zones
<1>1. /\ AzBitmask(request)' = AzBitmask(request)
      /\ AzSize' = AzSize
      /\ Zones' = Zones
  BY DEF AzSize, Zones
<1>2. \A a : SliceBase(a)' = SliceBase(a)
  BY <1>1 DEF SliceBase
<1>3. \A k : MaskOf(k)' = MaskOf(k)
  BY <1>1 DEF MaskOf
<1>4. \A k : DescendingUpTo(k)' <=> DescendingUpTo(k)
  BY <1>3 DEF DescendingUpTo
<1>5. \A a, k : ID(a, k)' = ID(a, k)
  BY DEF ID
<1>6. HasHostRoute' <=> HasHostRoute
  BY <1>3 DEF HasHostRoute, Positions
<1>7. QED
  BY <1>1, <1>2, <1>3, <1>4, <1>5, <1>6

LEMMA AddSizeInv ==
  ASSUME IInv, AddSize
  PROVE  IInv'
<1> DEFINE n == Len(required)
           i == n + 1
           size == BlockSize[MaskOf(i)]
           sofar == IF required = <<>> THEN 0 ELSE required[n]
<1>1. /\ phase = "sizing" /\ TypeOK /\ Sized
      /\ required \in Seq(Nat) /\ n \in Nat /\ i <= Len(specs)
  BY DEF AddSize, IInv, TypeOK
<1>2. CASE Throw
  BY <1>1, <1>2, ThrowInv
<1>3. CASE ~Throw
  <2>1. /\ MaskOf(i) \in Masks
        /\ required' = Append(required, sofar + size)
        /\ UNCHANGED <<request, phase, specs, az, index, azBlock, current,
                       allocation, published>>
    BY <1>3 DEF AddSize
  <2>2. size \in Nat \ {0}
    BY <2>1, SizeFacts
  <2>3. sofar \in Nat /\ (n > 0 => sofar = required[n])
    BY <1>1
  <2>4. /\ required' \in Seq(Nat)
        /\ Len(required') = i
        /\ \A k \in 1..n : required'[k] = required[k]
        /\ required'[i] = sofar + size
    BY <1>1, <2>1, <2>2, <2>3
  <2>5. TypeOK'
    BY <1>1, <2>1, <2>4 DEF TypeOK
  <2>6. \A k : MaskOf(k)' = MaskOf(k)
    BY <2>1, Settled
  <2>7. Sized'
    <3>1. ASSUME NEW k \in 1..i
          PROVE  /\ MaskOf(k)' \in Masks
                 /\ required'[k] = Before(k)' + BlockSize[MaskOf(k)']
      <4>1. CASE k = i
        <5>1. Before(k)' = sofar
          <6>1. CASE n = 0
            BY <1>1, <4>1, <6>1 DEF Before
          <6>2. CASE n > 0
            <7>1. k # 1 /\ k - 1 = n /\ n \in 1..n
              BY <1>1, <4>1, <6>2
            <7>2. QED
              BY <2>3, <2>4, <6>2, <7>1 DEF Before
          <6>3. QED
            BY <1>1, <6>1, <6>2
        <5>2. MaskOf(k)' = MaskOf(i)
          BY <2>6, <4>1
        <5>3. QED
          BY <2>1, <2>4, <4>1, <5>1, <5>2
      <4>2. CASE k # i
        <5>1. k \in 1..n /\ (k # 1 => k - 1 \in 1..n)
          BY <1>1, <4>2
        <5>2. Before(k)' = Before(k)
          BY <2>4, <5>1 DEF Before
        <5>3. QED
          BY <1>1, <2>4, <2>6, <5>1, <5>2 DEF Sized
      <4>3. QED
        BY <4>1, <4>2
    <3>2. ASSUME NEW j \in 1..i, NEW k \in 1..i, j <= k
          PROVE  required'[j] <= required'[k]
      <4>1. CASE k # i
        <5>1. j \in 1..n /\ k \in 1..n
          BY <1>1, <3>2, <4>1
        <5>2. QED
          BY <1>1, <2>4, <3>2, <5>1 DEF Sized
      <4>2. CASE k = i /\ j # i
        <5>1. j \in 1..n /\ n \in 1..n /\ j <= n
          BY <1>1, <3>2, <4>2
        <5>2. required[j] <= required[n] /\ required[j] \in Nat
          BY <1>1, <5>1 DEF Sized
        <5>3. QED
          BY <2>2, <2>3, <2>4, <4>2, <5>1, <5>2
      <4>3. CASE k = i /\ j = i
        BY <2>2, <2>3, <2>4, <4>3
      <4>4. QED
        BY <4>1, <4>2, <4>3
    <3>3. QED
      BY <1>1, <2>1, <2>4, <3>1, <3>2 DEF Sized
  <2>8. QED
    BY <1>1, <2>1, <2>5, <2>7 DEF IInv
<1>4. QED
  BY <1>2, <1>3

LEMMA CheckTotalInv ==
  ASSUME IInv, CheckTotal
  PROVE  IInv'
<1>1. /\ phase = "sizing" /\ TypeOK /\ Sized
      /\ allocation = <<>> /\ az = 1 /\ index = 1 /\ current = Undefined
      /\ Len(required) = Len(specs) /\ required \in Seq(Nat)
      /\ specs \in Seq(SubnetSpecInput) /\ Len(specs) \in Nat \ {0}
  BY DEF CheckTotal, IInv, Sized, TypeOK
<1>2. CASE Throw
  BY <1>1, <1>2, ThrowInv
<1>3. CASE ~Throw
  <2> DEFINE n == Len(specs)
             m == AzBitmask(request)
  <2>1. /\ required[n] <= AzSize \/ ~(required[n] <= AzSize)
        /\ ~(required[n] > AzSize)
        /\ azBlock' = Netmask(request.vpc.base, m)
        /\ phase' = "placing"
        /\ UNCHANGED <<request, specs, required, az, index, current,
                       allocation, published>>
    BY <1>1, <1>3 DEF CheckTotal, TooLarge
  <2>2. /\ m \in Masks /\ AzSize \in Nat \ {0}
        /\ SliceBase(1) = Netmask(request.vpc.base, m).base
    BY <1>1, SliceFacts DEF Sized
  <2>3. azBlock' \in Block /\ azBlock' = [base |-> SliceBase(1), mask |-> m]
    <3>1. request.vpc.base \in Nat /\ request.vpc.base < Space
      BY <1>1, RequestFacts, SizeFacts DEF Block, Addresses
    <3>2. Netmask(request.vpc.base, m) \in Block
      BY <2>2, <3>1, NetmaskFacts
    <3>3. QED
      BY <2>1, <2>2, <3>2 DEF Netmask
  <2>4. TypeOK'
    BY <1>1, <2>1, <2>3 DEF TypeOK, Phases
  <2>5. Sized'
    BY <1>1, <2>1, Settled DEF Sized, Before
  <2>6. Cursor'
    <3>1. \A k \in 1..n : required[k] <= AzSize
      <4>1. ASSUME NEW k \in 1..n PROVE required[k] <= AzSize
        <5>1. required[k] <= required[n] /\ required[k] \in Nat
                /\ required[n] \in Nat
          BY <1>1 DEF Sized
        <5>2. QED
          BY <2>1, <2>2, <5>1
      <4>2. QED BY <4>1
    <3>2. 1 <= request.azCount + 1
      BY <1>1, RequestFacts
    <3>3. QED
      BY <1>1, <2>1, <2>3, <3>1, <3>2, Settled DEF Cursor
  <2>7. ASSUME NEW a \in Nat, NEW k \in 1..n PROVE ~(Reached(a, k)') \/ a = 0
    BY <1>1, <2>1 DEF Reached
  <2>8. DOMAIN allocation' = {}
    BY <1>1, <2>1
  <2>9. (Filled /\ Entries /\ Ascending)'
    BY <2>1, <2>7, <2>8 DEF Filled, Entries, Ascending, Zones
  <2>10. QED
    BY <2>1, <2>4, <2>5, <2>6, <2>9 DEF IInv
<1>4. QED
  BY <1>2, <1>3

-----------------------------------------------------------------------------
(* Where the next subnet of a zone lands, relative to the zone's slice and *)
(* to the subnet before it.                                                *)
PlacedWell(b) ==
  /\ b \in Block
  /\ b.mask = MaskOf(index)
  /\ b.base % Size(b) = 0
  /\ SliceBase(az) <= b.base
  /\ End(b) <= SliceBase(az) + 2 * required[index]
  /\ DescendingUpTo(index) => End(b) <= SliceBase(az) + required[index]
  /\ index > 1 /\ ~HasHostRoute => End(BlockOf(az, index - 1)) <= b.base

LEMMA PlaceFacts ==
  ASSUME IInv, phase = "placing", az <= request.azCount, index <= Len(specs)
  PROVE  PlacedWell(IF current = Undefined
                    THEN Netmask(azBlock.base, MaskOf(index))
                    ELSE NextNetmask(current, MaskOf(index)))
<1> DEFINE m == MaskOf(index)
           s == BlockSize[m]
           base == SliceBase(az)
<1>1. TypeOK /\ Sized /\ Cursor /\ Filled /\ Entries /\ Ascending
  BY DEF IInv
<1>2. /\ az \in Nat \ {0} /\ az \in Zones
      /\ index \in 1..Len(specs) /\ Len(required) = Len(specs)
      /\ request.azCount \in Nat
      /\ Len(specs) \in Nat
  BY <1>1, RequestFacts DEF TypeOK, Zones, Cursor
<1>3. /\ AzBitmask(request) \in Masks
      /\ m \in Masks /\ s \in Nat \ {0}
      /\ required[index] = Before(index) + s
      /\ required[index] \in Nat /\ required[index] <= AzSize
  BY <1>1, <1>2, SizeFacts DEF Sized, TypeOK, Cursor
<1>4. /\ AzSize \in Nat \ {0}
      /\ base \in Nat /\ base % AzSize = 0
      /\ base + 2 * AzSize <= Space
      /\ Space \in Nat
  BY <1>1, <1>2, <1>3, SliceFacts, SizeFacts
<1>5. CASE current = Undefined
  <2> DEFINE b == Netmask(azBlock.base, m)
  <2>1. index = 1 /\ required[index] = s /\ azBlock.base = base
    BY <1>1, <1>3, <1>5 DEF Cursor, Before
  <2>2. base % s = 0
    <3>1. AzSize % s = 0
      BY <1>3, <2>1, SizeOrder DEF AzSize
    <3>2. QED
      BY <1>3, <1>4, <3>1, MultipleOfMultiple
  <2>3. b.base = base /\ b.mask = m
    BY <1>3, <1>4, <2>1, <2>2 DEF Netmask
  <2>4. b \in Block /\ End(b) = base + s /\ Size(b) = s
    <3>1. base < Space
      BY <1>4
    <3>2. QED
      BY <1>3, <1>4, <2>1, <2>3, <3>1, NetmaskFacts DEF Size
  <2>5. QED
    BY <1>3, <1>4, <1>5, <2>1, <2>2, <2>3, <2>4 DEF PlacedWell
<1>6. CASE current # Undefined
  <2> DEFINE k == index - 1
             b == NextNetmask(current, m)
  <2>1. index > 1 /\ k \in 1..Len(specs) /\ current = BlockOf(az, k)
    BY <1>1, <1>2, <1>6 DEF Cursor
  <2>2. current \in Block
    BY <1>1, <1>6 DEF TypeOK
  <2>3. Reached(az, k)
    BY <1>2, <2>1 DEF Reached
  <2>4. EntryOK(az, k)
    BY <1>1, <1>2, <2>1, <2>3 DEF Entries
  <2>5. /\ current.mask = MaskOf(k)
        /\ current.base % Size(current) = 0
        /\ base <= current.base
        /\ End(current) <= base + 2 * required[k]
        /\ DescendingUpTo(k) => End(current) <= base + required[k]
    BY <2>1, <2>4 DEF EntryOK
  <2>6. /\ required[k] \in Nat
        /\ required[index] = required[k] + s
        /\ MaskOf(k) \in Masks
    BY <1>1, <1>2, <1>3, <2>1 DEF Before, TypeOK, Sized
  <2>7. End(current) \in Nat /\ current.base \in Nat
    BY <2>2, LastHostFacts
  <2>8. End(current) + s <= Space
    BY <1>3, <1>4, <2>5, <2>6, <2>7
  <2>9. /\ b \in Block /\ b.mask = m /\ Size(b) = s
        /\ b.base % s = 0
        /\ current.base < b.base
        /\ End(b) <= End(current) + 2 * s
        /\ End(current) % s = 0 => b.base <= End(current)
        /\ current.mask < Width /\ m < Width => End(current) <= b.base
    BY <1>3, <2>2, <2>5, <2>8, NextNetmaskFacts
  <2>10. b.base \in Nat /\ End(b) = b.base + s /\ End(b) \in Nat
    BY <2>9, LastHostFacts DEF End
  <2> HIDE DEF b, k, base, s
  <2>11. End(b) <= base + 2 * required[index]
    <3>1. End(b) <= End(current) + 2 * s
      BY <2>9
    <3>2. End(current) <= base + 2 * required[k]
      BY <2>5
    <3>3. 2 * required[index] = 2 * required[k] + 2 * s
      BY <1>3, <2>6
    <3>4. /\ End(b) \in Nat /\ End(current) \in Nat /\ base \in Nat
          /\ 2 * required[k] \in Nat /\ 2 * s \in Nat
      BY <1>3, <1>4, <2>6, <2>7, <2>10
    <3>5. QED
      BY <3>1, <3>2, <3>3, <3>4
  <2>12. ASSUME DescendingUpTo(index)
         PROVE  End(b) <= base + required[index]
    <3>1. MaskOf(k) <= m /\ DescendingUpTo(k)
      BY <1>2, <2>1, <2>12 DEF DescendingUpTo, k
    <3>2. Size(current) % s = 0 /\ Size(current) \in Nat \ {0}
      BY <1>3, <2>5, <2>6, <3>1, SizeOrder, SizeFacts DEF Size, s
    <3>3. current.base % s = 0
      BY <1>3, <2>5, <2>7, <3>2, MultipleOfMultiple
    <3>4. End(current) % s = 0
      BY <1>3, <2>7, <3>2, <3>3, SumOfMultiples DEF End
    <3>5. b.base <= End(current) /\ End(current) <= base + required[k]
      BY <2>5, <2>9, <3>1, <3>4
    <3>6. QED
      BY <1>3, <1>4, <2>6, <2>7, <2>10, <3>5
  <2>13. ASSUME ~HasHostRoute PROVE End(BlockOf(az, k)) <= b.base
    <3>1. m # Width /\ MaskOf(k) # Width
      BY <1>2, <2>1, <2>13 DEF HasHostRoute, Positions
    <3>2. m < Width /\ MaskOf(k) < Width
      BY <1>3, <2>6, <3>1, WidthAssumption DEF Masks
    <3>3. QED
      BY <2>1, <2>5, <2>9, <3>2
  <2>14. base <= b.base
    BY <1>4, <2>5, <2>7, <2>9, <2>10
  <2>15. PlacedWell(b)
    <3>1. DescendingUpTo(index) => End(b) <= base + required[index]
      BY <2>12
    <3>2. index > 1 /\ ~HasHostRoute => End(BlockOf(az, index - 1)) <= b.base
      BY <2>13 DEF k
    <3>3. b.base % Size(b) = 0
      BY <2>9
    <3>4. QED
      BY <2>9, <2>11, <2>14, <3>1, <3>2, <3>3 DEF PlacedWell, base
  <2>16. QED
    BY <1>6, <2>15 DEF b
<1>7. QED
  BY <1>5, <1>6

LEMMA PlaceSubnetInv ==
  ASSUME IInv, PlaceSubnet
  PROVE  IInv'
<1> DEFINE n == Len(specs)
<1>1. /\ TypeOK /\ Sized /\ Cursor /\ Filled /\ Entries /\ Ascending
      /\ phase = "placing" /\ az <= request.azCount /\ index <= n
      /\ UNCHANGED <<request, phase, specs, required, az, azBlock, published>>
      /\ index' = index + 1
      /\ allocation' = Store(allocation, ID(az, index), current')
  BY DEF IInv, PlaceSubnet
<1>2. /\ az \in Nat \ {0} /\ az \in Zones
      /\ index \in 1..n /\ n \in Nat /\ specs \in Seq(SubnetSpecInput)
      /\ request.azCount \in Nat
  BY <1>1, RequestFacts DEF TypeOK, Zones
<1>3. PICK b : PlacedWell(b) /\ b = current'
  BY <1>1, PlaceFacts DEF PlaceSubnet
<1>4. b \in Block
  BY <1>3 DEF PlacedWell
<1>5. PICK id : id = ID(az, index)
  OBVIOUS
<1>6. allocation' = [x \in {id} \cup DOMAIN allocation |->
                       IF x = id THEN b ELSE allocation[x]]
  BY <1>1, <1>3, <1>5 DEF Store
<1>7. \A a, k : ID(a, k) = id <=> a = az /\ k = index
  BY <1>5 DEF ID, SubnetAllocationID
<1>8. ASSUME NEW a \in Zones, NEW k \in 1..n
      PROVE  /\ Reached(a, k)' <=> Reached(a, k) \/ (a = az /\ k = index)
             /\ ID(a, k) \in DOMAIN allocation' <=>
                  ID(a, k) \in DOMAIN allocation \/ (a = az /\ k = index)
             /\ ~(a = az /\ k = index) /\ Reached(a, k) =>
                  BlockOf(a, k)' = BlockOf(a, k)
             /\ a = az /\ k = index => BlockOf(a, k)' = b
  <2>1. Reached(a, k)' <=> Reached(a, k) \/ (a = az /\ k = index)
    BY <1>1, <1>2 DEF Reached, Zones
  <2>2. ID(a, k)' = ID(a, k)
    BY <1>1, Settled
  <2>3. Reached(a, k) => ID(a, k) \in DOMAIN allocation
    BY <1>1 DEF Filled
  <2>4. QED
    BY <1>6, <1>7, <2>1, <2>2, <2>3 DEF BlockOf
<1>9. /\ AzBitmask(request)' = AzBitmask(request)
      /\ AzSize' = AzSize
      /\ \A a : SliceBase(a)' = SliceBase(a)
      /\ \A k : MaskOf(k)' = MaskOf(k)
      /\ \A k : DescendingUpTo(k)' <=> DescendingUpTo(k)
      /\ \A a, k : ID(a, k)' = ID(a, k)
      /\ HasHostRoute' <=> HasHostRoute
      /\ Zones' = Zones
  BY <1>1, Settled
<1>10. TypeOK'
  <2>1. id \in Names \X (Nat \ {0}) \X (Nat \ {0})
    <3>1. specs[index].name \in Names
      <4>1. specs[index] \in SubnetSpecInput
        BY <1>2
      <4>2. QED
        BY <4>1 DEF SubnetSpecInput
    <3>2. QED
      BY <1>2, <1>5, <3>1 DEF ID, SubnetAllocationID
  <2>2. DOMAIN allocation' \subseteq Names \X (Nat \ {0}) \X (Nat \ {0})
    BY <1>1, <1>6, <2>1 DEF TypeOK
  <2>3. \A x \in DOMAIN allocation' : allocation'[x] \in Block
    BY <1>1, <1>4, <1>6 DEF TypeOK
  <2>4. QED
    BY <1>1, <1>2, <1>3, <1>4, <2>2, <2>3 DEF TypeOK
<1>11. Sized'
  BY <1>1, <1>9 DEF Sized, Before
<1>12. Cursor'
  <2>1. PICK k \in 1..n : k = index
    BY <1>2
  <2>2. current' # Undefined /\ index' # 1 /\ index' > 1 /\ index' - 1 = k
    BY <1>1, <1>2, <1>3, <1>4, <2>1, UndefinedAssumption
  <2>3. current' = BlockOf(az, k)'
    <3>1. BlockOf(az, k)' = allocation'[ID(az, k)']
      BY DEF BlockOf
    <3>2. ID(az, k)' = id
      BY <1>1, <1>5, <2>1 DEF ID
    <3>3. QED
      BY <1>3, <1>6, <3>1, <3>2
  <2>4. index' <= n + 1
    BY <1>1, <1>2
  <2>5. BlockOf(az, index - 1)' = BlockOf(az, k)'
    BY <2>2
  <2>6. QED
    BY <1>1, <1>9, <2>2, <2>3, <2>4, <2>5 DEF Cursor
<1>13. Filled'
  BY <1>1, <1>8, <1>9 DEF Filled
<1>14. Entries'
  <2>1. ASSUME NEW a \in Zones, NEW k \in 1..n, Reached(a, k)'
        PROVE  EntryOK(a, k)'
    <3>1. CASE a = az /\ k = index
      <4>1. BlockOf(a, k)' = b
        BY <1>8, <3>1
      <4>2. QED
        BY <1>1, <1>3, <1>9, <3>1, <4>1 DEF PlacedWell, EntryOK, Size, End
    <3>2. CASE ~(a = az /\ k = index)
      <4>1. Reached(a, k) /\ BlockOf(a, k)' = BlockOf(a, k)
        BY <1>8, <2>1, <3>2
      <4>2. EntryOK(a, k)
        BY <1>1, <4>1 DEF Entries
      <4>3. QED
        BY <1>1, <1>9, <4>1, <4>2 DEF EntryOK, Size, End
    <3>3. QED
      BY <3>1, <3>2
  <2>2. QED
    BY <1>1, <1>9, <2>1 DEF Entries
<1>15. Ascending'
  <2>1. ASSUME ~HasHostRoute, NEW a \in Zones, NEW j \in 1..n, NEW k \in 1..n,
               j < k, Reached(a, k)'
        PROVE  End(BlockOf(a, j)') <= (BlockOf(a, k)').base
    <3>1. Reached(a, j) /\ BlockOf(a, j)' = BlockOf(a, j)
      BY <1>2, <1>8, <2>1 DEF Reached, Zones
    <3>2. CASE ~(a = az /\ k = index)
      <4>1. Reached(a, k) /\ BlockOf(a, k)' = BlockOf(a, k)
        BY <1>8, <2>1, <3>2
      <4>2. QED
        BY <1>1, <2>1, <3>1, <4>1 DEF Ascending
    <3>3. CASE a = az /\ k = index
      <4> DEFINE l == index - 1
      <4>1. /\ BlockOf(a, k)' = b /\ index > 1 /\ l \in 1..n /\ j <= l
            /\ End(BlockOf(az, l)) <= b.base
        BY <1>2, <1>3, <1>8, <2>1, <3>3 DEF PlacedWell
      <4>2. Reached(az, l) /\ BlockOf(az, l) \in Block
              /\ BlockOf(az, j) \in Block
        <5>1. Reached(az, l)
          BY <1>2, <4>1 DEF Reached
        <5>2. ID(az, l) \in DOMAIN allocation /\ ID(az, j) \in DOMAIN allocation
          BY <1>1, <1>2, <3>1, <3>3, <4>1, <5>1 DEF Filled
        <5>3. QED
          BY <1>1, <5>1, <5>2 DEF TypeOK, BlockOf
      <4>3. CASE j = l
        BY <3>1, <3>3, <4>1, <4>3
      <4>4. CASE j # l
        <5>1. End(BlockOf(az, j)) <= BlockOf(az, l).base
          BY <1>1, <1>2, <2>1, <4>1, <4>2, <4>4 DEF Ascending
        <5>2. /\ End(BlockOf(az, j)) \in Nat /\ b.base \in Nat
              /\ BlockOf(az, l).base \in Nat /\ End(BlockOf(az, l)) \in Nat
              /\ BlockOf(az, l).base <= End(BlockOf(az, l))
          BY <1>4, <4>2, LastHostFacts DEF End
        <5>3. QED
          BY <3>1, <3>3, <4>1, <5>1, <5>2
      <4>5. QED
        BY <4>3, <4>4
    <3>4. QED
      BY <3>2, <3>3
  <2>2. QED
    BY <1>1, <1>9, <2>1 DEF Ascending, End, Size
<1>16. QED
  BY <1>1, <1>10, <1>11, <1>12, <1>13, <1>14, <1>15 DEF IInv

LEMMA NextAzInv ==
  ASSUME IInv, NextAz
  PROVE  IInv'
<1> DEFINE n == Len(specs)
<1>1. /\ TypeOK /\ Sized /\ Cursor /\ Filled /\ Entries /\ Ascending
      /\ phase = "placing" /\ az <= request.azCount /\ index > n
      /\ azBlock' = NextBlock(azBlock)
      /\ az' = az + 1 /\ index' = 1 /\ current' = Undefined
      /\ UNCHANGED <<request, phase, specs, required, allocation, published>>
  BY DEF IInv, NextAz
<1>2. /\ az \in Nat \ {0} /\ index \in Nat \ {0} /\ n \in Nat
      /\ request.azCount \in Nat /\ specs # <<>>
      /\ AzBitmask(request) \in Masks /\ n >= 1
  BY <1>1, RequestFacts DEF TypeOK, Sized
<1>3. index = n + 1
  BY <1>1, <1>2 DEF Cursor
<1>4. /\ AzBitmask(request)' = AzBitmask(request)
      /\ AzSize' = AzSize
      /\ \A a : SliceBase(a)' = SliceBase(a)
      /\ \A k : MaskOf(k)' = MaskOf(k)
      /\ \A k : DescendingUpTo(k)' <=> DescendingUpTo(k)
      /\ \A a, k : ID(a, k)' = ID(a, k)
      /\ \A a, k : BlockOf(a, k)' = BlockOf(a, k)
      /\ HasHostRoute' <=> HasHostRoute
      /\ Zones' = Zones
  BY <1>1, Settled DEF BlockOf
<1>5. ASSUME NEW a \in Zones, NEW k \in 1..n
      PROVE  Reached(a, k)' <=> Reached(a, k)
  BY <1>1, <1>2, <1>3 DEF Reached, Zones
<1>6. /\ azBlock' \in Block
      /\ azBlock' = [base |-> SliceBase(az + 1), mask |-> AzBitmask(request)]
  <2>1. azBlock = [base |-> SliceBase(az), mask |-> AzBitmask(request)]
    BY <1>1 DEF Cursor
  <2>2. /\ SliceBase(az) \in Nat /\ SliceBase(az) % AzSize = 0
        /\ SliceBase(az + 1) = SliceBase(az) + AzSize
        /\ SliceBase(az) + 2 * AzSize <= Space
        /\ AzSize \in Nat \ {0} /\ Space \in Nat
    BY <1>1, <1>2, SliceFacts, SizeFacts
  <2>3. azBlock \in Block
    BY <1>2, <2>1, <2>2 DEF Block, Addresses
  <2>4. Size(azBlock) = AzSize /\ End(azBlock) = SliceBase(az + 1)
    BY <2>1, <2>2 DEF Size, End, AzSize
  <2>5. End(azBlock) < Space /\ azBlock.base % Size(azBlock) = 0
    BY <2>1, <2>2, <2>4
  <2>6. QED
    BY <1>1, <2>1, <2>3, <2>4, <2>5, NextBlockFacts
<1>7. TypeOK'
  BY <1>1, <1>2, <1>6 DEF TypeOK
<1>8. Sized'
  BY <1>1, <1>4 DEF Sized, Before
<1>9. Cursor'
  BY <1>1, <1>2, <1>4, <1>6 DEF Cursor
<1>10. Filled' /\ Entries' /\ Ascending'
  <2>1. Filled'
    BY <1>1, <1>4, <1>5 DEF Filled
  <2>2. ASSUME NEW a \in Zones, NEW k \in 1..n, Reached(a, k)
        PROVE  EntryOK(a, k)'
    BY <1>1, <1>4, <2>2 DEF Entries, EntryOK, Size, End
  <2>3. Entries'
    BY <1>1, <1>4, <1>5, <2>2 DEF Entries
  <2>4. Ascending'
    BY <1>1, <1>4, <1>5 DEF Ascending, End, Size
  <2>5. QED
    BY <2>1, <2>3, <2>4
<1>11. QED
  BY <1>1, <1>7, <1>8, <1>9, <1>10 DEF IInv

LEMMA PublishInv ==
  ASSUME IInv, Publish
  PROVE  IInv'
<1>1. /\ TypeOK /\ Sized /\ Cursor /\ Filled /\ Entries /\ Ascending
      /\ phase = "placing" /\ az > request.azCount
      /\ phase' = "published"
      /\ UNCHANGED <<request, specs, required, az, index, azBlock, current,
                     allocation>>
  BY DEF IInv, Publish
<1>2. /\ \A a, k : BlockOf(a, k)' = BlockOf(a, k)
      /\ \A a, k : Reached(a, k)' <=> Reached(a, k)
  BY <1>1, Settled DEF BlockOf, Reached
<1>3. TypeOK'
  BY <1>1 DEF TypeOK, Phases
<1>4. Sized' /\ Cursor' /\ Filled'
  <2>1. Sized'
    BY <1>1, Settled DEF Sized, Before
  <2>2. Cursor'
    BY <1>1, <1>2, Settled DEF Cursor, BlockOf, ID
  <2>3. Filled'
    BY <1>1, <1>2, Settled DEF Filled
  <2>4. QED
    BY <2>1, <2>2, <2>3
<1>5. Entries' /\ Ascending'
  <2>1. \A a, k : EntryOK(a, k)' <=> EntryOK(a, k)
    BY <1>1, <1>2, Settled DEF EntryOK, Size, End
  <2>2. Entries'
    BY <1>1, <1>2, <2>1, Settled DEF Entries
  <2>3. Ascending'
    BY <1>1, <1>2, Settled DEF Ascending, Size, End
  <2>4. QED
    BY <2>2, <2>3
<1>6. az = request.azCount + 1
  BY <1>1, RequestFacts DEF Cursor, TypeOK
<1>7. QED
  BY <1>1, <1>3, <1>4, <1>5, <1>6 DEF IInv

LEMMA StutterInv ==
  ASSUME IInv, UNCHANGED vars
  PROVE  IInv'
<1>1. UNCHANGED <<request, phase, specs, required, az, index, azBlock,
                  current, allocation, published>>
  BY DEF vars
<1>2. QED
  BY <1>1 DEF IInv, TypeOK, Phases, Sized, Before, Cursor, Filled, Entries,
              EntryOK, Ascending, Reached, BlockOf, ID, HasHostRoute,
              Positions, DescendingUpTo, MaskOf, SliceBase, Zones, AzSize,
              Size, End

LEMMA InductiveInv ==
  ASSUME IInv, [Next]_vars
  PROVE  IInv'
<1>1. CASE ChooseSpecs
  BY <1>1, ChooseSpecsInv
<1>2. CASE AddSize
  BY <1>2, AddSizeInv
<1>3. CASE CheckTotal
  BY <1>3, CheckTotalInv
<1>4. CASE PlaceSubnet
  BY <1>4, PlaceSubnetInv
<1>5. CASE NextAz
  BY <1>5, NextAzInv
<1>6. CASE Publish
  BY <1>6, PublishInv
<1>7. CASE UNCHANGED vars
  BY <1>7, StutterInv
<1>8. QED
  BY <1>1, <1>2, <1>3, <1>4, <1>5, <1>6, <1>7 DEF Next

LEMMA Invariance == Spec => []IInv
<1>1. Init => IInv
  BY InitInv
<1>2. IInv /\ [Next]_vars => IInv'
  BY InductiveInv
<1>3. QED
  BY <1>1, <1>2, PTL DEF Spec

-----------------------------------------------------------------------------
(* The state of every call, of every set of requests, has its type: no     *)
(* address leaves the address space and no block is misread.               *)
THEOREM TypeCorrect == Spec => []TypeOK
<1>1. IInv => TypeOK
  BY DEF IInv
<1>2. QED
  BY <1>1, Invariance, PTL

(* allocateSubnetCidrBlocks never lets two subnets of a zone overlap, and  *)
(* keeps them in the order of their specs.                                 *)
THEOREM SubnetsInOrder == Spec => []InOrder
<1>1. IInv => InOrder
  <2> SUFFICES ASSUME IInv PROVE InOrder
    OBVIOUS
  <2>1. CASE phase \in {"called", "sizing", "failed"}
    BY <2>1 DEF IInv, InOrder, Placed
  <2>2. CASE phase \in {"placing", "published"}
    BY <2>2 DEF IInv, InOrder, Placed, Positions, Filled, Ascending
  <2>3. QED
    BY <2>1, <2>2 DEF IInv, TypeOK, Phases
<1>2. QED
  BY <1>1, Invariance, PTL

(* The slice of a zone and what a subnet may use of it.                    *)
LEMMA EntryInSlice ==
  ASSUME IInv, NEW a \in Zones, NEW i \in Positions, Placed(a, i)
  PROVE  /\ SliceBase(a) <= BlockOf(a, i).base
         /\ DescendingUpTo(i) => End(BlockOf(a, i)) <= SliceBase(a + 1)
         /\ End(BlockOf(a, i)) <= SliceBase(a + 2)
<1>1. allocation # <<>> /\ BlockOf(a, i) \in Block /\ TypeOK
  BY DEF Placed, IInv, TypeOK, BlockOf
<1>2. phase \in {"placing", "published"}
  BY <1>1 DEF IInv, TypeOK, Phases
<1>3. Sized /\ Cursor /\ Filled /\ Entries
  BY <1>2 DEF IInv
<1>4. EntryOK(a, i)
  BY <1>3 DEF Positions, Placed, Filled, Entries
<1>5. a \in Nat \ {0} /\ required[i] \in Nat /\ required[i] <= AzSize
  BY <1>1, <1>3, RequestFacts DEF Zones, Positions, Cursor, TypeOK
<1>6. /\ AzSize \in Nat \ {0} /\ SliceBase(a) \in Nat
      /\ SliceBase(a + 1) = SliceBase(a) + AzSize
      /\ SliceBase(a + 2) = SliceBase(a) + 2 * AzSize
  BY <1>1, <1>3, <1>5, SliceFacts DEF Sized
<1>7. End(BlockOf(a, i)) \in Nat /\ BlockOf(a, i).base \in Nat
  BY <1>1, LastHostFacts
<1>8. QED
  BY <1>4, <1>5, <1>6, <1>7 DEF EntryOK

(* The check of the total size is exact for specs in descending order of   *)
(* size, the default layout among them: no subnet leaves its zone.         *)
THEOREM DescendingSpecsFit == Spec => []FitsWhenDescending
<1>1. IInv => FitsWhenDescending
  BY EntryInSlice DEF FitsWhenDescending
<1>2. QED
  BY <1>1, Invariance, PTL

(* For specs in any order a zone's subnets stay below the end of the zone  *)
(* that follows.                                                           *)
THEOREM SpillIsBounded == Spec => []SpillBounded
<1>1. IInv => SpillBounded
  BY EntryInSlice DEF SpillBounded
<1>2. QED
  BY <1>1, Invariance, PTL

(* A block, once in the table, stays: no zone's or spec's identifier is    *)
(* ever used for another.                                                  *)
THEOREM AllocationIsFinal == Spec => NeverReallocated
<1> DEFINE Kept == \A id \in DOMAIN allocation :
                     id \in DOMAIN allocation' /\ allocation'[id] = allocation[id]
<1>1. IInv /\ [Next]_vars => [Kept]_vars
  <2> SUFFICES ASSUME IInv, Next PROVE Kept
    BY DEF vars
  <2>1. CASE PlaceSubnet
    <3>1. /\ allocation' = Store(allocation, ID(az, index), current')
          /\ az <= request.azCount /\ index <= Len(specs)
          /\ phase = "placing"
      BY <2>1 DEF PlaceSubnet
    <3>2. az \in Zones /\ index \in 1..Len(specs)
      BY <3>1, RequestFacts DEF IInv, TypeOK, Zones
    <3>3. ~Reached(az, index)
      BY <3>2 DEF Reached, Zones
    <3>4. ID(az, index) \notin DOMAIN allocation
      BY <3>1, <3>2, <3>3 DEF IInv, Filled
    <3>5. QED
      BY <3>1, <3>4 DEF Store
  <2>2. CASE ~PlaceSubnet
    <3>1. allocation' = allocation
      BY <2>2 DEF Next, ChooseSpecs, AddSize, CheckTotal, NextAz, Publish, Throw
    <3>2. QED
      BY <3>1
  <2>3. QED
    BY <2>1, <2>2
<1>2. Spec => [][Next]_vars
  BY PTL DEF Spec
<1>3. QED
  BY <1>1, <1>2, Invariance, PTL DEF NeverReallocated

-----------------------------------------------------------------------------
(* The read-back.  The names it looks up are those under which the blocks  *)
(* were stored, although they are computed from another list; and what it  *)
(* returned stays as it was read.                                          *)
Named ==
  phase \in {"sizing", "placing", "published"} =>
    /\ Len(BareSpecNames) = Len(specs)
    /\ \A i \in 1..Len(specs) : BareSpecNames[i] = specs[i].name

ZoneOf(p) == ((p - 1) \div Len(specs)) + 1
PositionOf(p) == ((p - 1) % Len(specs)) + 1

ReadBack ==
  phase = "published" =>
    /\ DOMAIN published = 1..(request.azCount * Len(specs))
    /\ Len(published) = request.azCount * Len(specs)
    /\ \A p \in DOMAIN published :
         published[p] = [az |-> ZoneOf(p), index |-> PositionOf(p),
                         block |-> BlockOf(ZoneOf(p), PositionOf(p))]

RInv == IInv /\ Named /\ ReadBack

(* The entry of a position in the list of every zone's specs.              *)
LEMMA EntryFacts ==
  ASSUME NEW n \in Nat \ {0}, NEW count \in Nat, NEW p \in 1..(count * n)
  PROVE  /\ (p - 1) \div n \in Nat
         /\ ((p - 1) \div n) + 1 \in 1..count
         /\ ((p - 1) % n) + 1 \in 1..n
         /\ p - 1 = n * ((p - 1) \div n) + ((p - 1) % n)
<1> DEFINE d == (p - 1) \div n
<1>1. /\ d \in Nat /\ (p - 1) % n \in 0..(n - 1)
      /\ p - 1 = n * d + ((p - 1) % n)
  <2>1. p - 1 \in Nat
    OBVIOUS
  <2> QED BY <2>1, DivisionFacts
<1>2. d < count
  <2> SUFFICES ASSUME count <= d PROVE FALSE
    BY <1>1
  <2>1. count * n <= d * n
    BY <1>1
  <2>2. d * n = n * d /\ n * d <= p - 1
    BY <1>1
  <2> HIDE DEF d
  <2> QED BY <1>1, <2>1, <2>2
<1> QED BY <1>1, <1>2

LEMMA NamedInv ==
  ASSUME IInv, Named, [Next]_vars
  PROVE  Named'
<1>1. CASE ChooseSpecs /\ phase' = "sizing"
  <2>1. /\ UNCHANGED request
        /\ specs' = IF request.specs = Undefined
                    THEN DefaultSubnetInputs(AzBitmask(request)) ELSE request.specs
    BY <1>1 DEF ChooseSpecs, Throw
  <2>2. BareSpecNames' = BareSpecNames
    BY <2>1 DEF BareSpecNames
  <2>3. CASE request.specs = Undefined
    <3>1. DefaultTypes \in Seq(Names)
      BY DefaultsAssumption
    <3>2. /\ Len(specs') = Len(DefaultTypes) /\ BareSpecNames = DefaultTypes
          /\ \A i \in 1..Len(DefaultTypes) : specs'[i].name = DefaultTypes[i]
      BY <2>1, <2>3, <3>1 DEF DefaultSubnetInputs, BareSpecNames
    <3> QED BY <2>2, <3>2 DEF Named
  <2>4. CASE request.specs # Undefined
    <3>1. request.specs \in Seq(SubnetSpecInput) /\ specs' = request.specs
      BY <2>1, <2>4, RequestFacts DEF IInv
    <3>2. /\ Len(BareSpecNames) = Len(request.specs)
          /\ \A i \in 1..Len(request.specs) : BareSpecNames[i] = request.specs[i].name
      BY <2>4, <3>1 DEF BareSpecNames
    <3> QED BY <2>2, <3>1, <3>2 DEF Named
  <2> QED BY <2>3, <2>4
<1>2. CASE ~(ChooseSpecs /\ phase' = "sizing")
  <2>1. \/ phase' \notin {"sizing", "placing", "published"}
        \/ /\ UNCHANGED <<request, specs>>
           /\ phase \in {"sizing", "placing", "published"}
    BY <1>2
    DEF Next, ChooseSpecs, AddSize, CheckTotal, PlaceSubnet, NextAz, Publish, Throw, vars
  <2>2. UNCHANGED request => BareSpecNames' = BareSpecNames
    BY DEF BareSpecNames
  <2> QED BY <2>1, <2>2 DEF Named
<1> QED BY <1>1, <1>2

LEMMA ReadBackInv ==
  ASSUME IInv, Named, ReadBack, [Next]_vars
  PROVE  ReadBack'
<1>1. CASE Publish
  <2> DEFINE n == Len(specs)
  <2>1. /\ UNCHANGED <<request, specs, allocation>> /\ phase = "placing"
        /\ Len(BareSpecNames) = n
        /\ \A i \in 1..n : BareSpecNames[i] = specs[i].name
    BY <1>1 DEF Publish, Named
  <2>2. n \in Nat \ {0} /\ request.azCount \in Nat
    BY <2>1, RequestFacts DEF IInv, TypeOK, Sized
  <2>3. published' =
          [p \in 1..(request.azCount * n) |->
             [az |-> ((p - 1) \div n) + 1, index |-> ((p - 1) % n) + 1,
              block |-> allocation[SubnetAllocationID(BareSpecNames[((p - 1) % n) + 1],
                                                      ((p - 1) \div n) + 1,
                                                      ((p - 1) % n) + 1)]]]
    BY <1>1, <2>1 DEF Publish
  <2>4. request.azCount * n \in Nat
    BY <2>2
  <2>5. DOMAIN published' = 1..(request.azCount * n)
          /\ Len(published') = request.azCount * n
    BY <2>3, <2>4
  <2>6. ASSUME NEW p \in 1..(request.azCount * n)
        PROVE  published'[p] = [az |-> ZoneOf(p), index |-> PositionOf(p),
                                block |-> BlockOf(ZoneOf(p), PositionOf(p))]
    <3>1. BareSpecNames[PositionOf(p)] = specs[PositionOf(p)].name
      BY <2>1, <2>2, <2>6, EntryFacts DEF PositionOf
    <3> QED BY <2>3, <2>6, <3>1 DEF ZoneOf, PositionOf, BlockOf, ID
  <2>7. \A p : /\ ZoneOf(p)' = ZoneOf(p) /\ PositionOf(p)' = PositionOf(p)
    BY <2>1 DEF ZoneOf, PositionOf
  <2>8. \A a, i : BlockOf(a, i)' = BlockOf(a, i)
    BY <2>1 DEF BlockOf, ID
  <2> QED BY <2>1, <2>5, <2>6, <2>7, <2>8 DEF ReadBack
<1>2. CASE ~Publish /\ phase' # "published"
  BY <1>2 DEF ReadBack
<1>3. CASE ~Publish /\ phase' = "published"
  <2>1. UNCHANGED <<request, specs, allocation, published, phase>>
    BY <1>3
    DEF Next, ChooseSpecs, AddSize, CheckTotal, PlaceSubnet, NextAz, Throw, vars
  <2> QED BY <1>3, <2>1 DEF ReadBack, ZoneOf, PositionOf, BlockOf, ID
<1> QED BY <1>1, <1>2, <1>3

LEMMA ReadInvariance == Spec => []RInv
<1>1. Init => Named /\ ReadBack
  BY DEF Init, Named, ReadBack
<1>2. IInv /\ Named /\ ReadBack /\ [Next]_vars => Named' /\ ReadBack'
  BY NamedInv, ReadBackInv
<1> QED BY <1>1, <1>2, Invariance, PTL DEF Spec, RInv

(* Where an entry of the read-back stands, and what it holds.              *)
LEMMA ReadBackFacts ==
  ASSUME RInv, phase = "published"
  PROVE  /\ Len(specs) \in Nat \ {0} /\ request.azCount \in Nat
         /\ DOMAIN published = 1..(request.azCount * Len(specs))
         /\ Len(published) = request.azCount * Len(specs)
         /\ \A p \in DOMAIN published :
              /\ published[p] = [az |-> ZoneOf(p), index |-> PositionOf(p),
                                 block |-> BlockOf(ZoneOf(p), PositionOf(p))]
              /\ ZoneOf(p) \in Zones /\ PositionOf(p) \in 1..Len(specs)
              /\ (p - 1) \div Len(specs) \in Nat
              /\ p - 1 = Len(specs) * ((p - 1) \div Len(specs)) + (PositionOf(p) - 1)
              /\ Reached(ZoneOf(p), PositionOf(p))
<1> DEFINE n == Len(specs)
<1>1. n \in Nat \ {0} /\ request.azCount \in Nat
  BY RequestFacts DEF RInv, IInv, TypeOK, Sized
<1>2. ASSUME NEW p \in DOMAIN published
      PROVE  /\ published[p] = [az |-> ZoneOf(p), index |-> PositionOf(p),
                                block |-> BlockOf(ZoneOf(p), PositionOf(p))]
             /\ ZoneOf(p) \in Zones /\ PositionOf(p) \in 1..n
             /\ (p - 1) \div n \in Nat
             /\ p - 1 = n * ((p - 1) \div n) + (PositionOf(p) - 1)
             /\ Reached(ZoneOf(p), PositionOf(p))
  <2>1. p \in 1..(request.azCount * n)
    BY <1>2 DEF RInv, ReadBack
  <2>2. /\ ZoneOf(p) \in Zones /\ PositionOf(p) \in 1..n
        /\ (p - 1) \div n \in Nat
        /\ p - 1 = n * ((p - 1) \div n) + (PositionOf(p) - 1)
    <3>1. /\ (p - 1) \div n \in Nat
          /\ ((p - 1) \div n) + 1 \in 1..request.azCount
          /\ ((p - 1) % n) + 1 \in 1..n
          /\ p - 1 = n * ((p - 1) \div n) + ((p - 1) % n)
      BY <1>1, <2>1, EntryFacts
    <3> HIDE DEF n
    <3>2. (p - 1) % n \in Int
      BY <1>1, <2>1
    <3>3. ZoneOf(p) = ((p - 1) \div n) + 1 /\ PositionOf(p) - 1 = (p - 1) % n
      BY <3>2 DEF ZoneOf, PositionOf, n
    <3> QED BY <3>1, <3>3 DEF ZoneOf, PositionOf, Zones, n
  <2>3. Reached(ZoneOf(p), PositionOf(p))
    BY <1>1, <2>2 DEF RInv, IInv, Reached, Zones
  <2> QED BY <1>2, <2>2, <2>3 DEF RInv, ReadBack
<1> QED BY <1>1, <1>2 DEF RInv, ReadBack

(* What getSubnetSpecs returns has, for every zone and spec, the block     *)
(* that allocateSubnetCidrBlocks placed for it, of the size the spec asks  *)
(* for; and a zone's blocks are in order.                                  *)
THEOREM ReadBackIsPerSpec == Spec => []PublishedIsPerSpec
<1>1. RInv => PublishedIsPerSpec
  <2> SUFFICES ASSUME RInv, phase = "published"
               PROVE  /\ Len(published) = request.azCount * Len(specs)
                      /\ \A p \in DOMAIN published :
                           /\ published[p].block.mask = MaskOf(published[p].index)
                           /\ \A q \in 1..(p - 1) :
                                published[q].az = published[p].az /\ ~HasHostRoute
                                  => End(published[q].block) <= published[p].block.base
    BY DEF PublishedIsPerSpec
  <2> DEFINE n == Len(specs)
  <2>1. n \in Nat \ {0} /\ request.azCount \in Nat
    BY ReadBackFacts
  <2>2. \A p \in DOMAIN published :
           /\ published[p] = [az |-> ZoneOf(p), index |-> PositionOf(p),
                              block |-> BlockOf(ZoneOf(p), PositionOf(p))]
           /\ ZoneOf(p) \in Zones /\ PositionOf(p) \in 1..n
           /\ (p - 1) \div n \in Nat
           /\ p - 1 = n * ((p - 1) \div n) + (PositionOf(p) - 1)
           /\ Reached(ZoneOf(p), PositionOf(p))
    BY ReadBackFacts
  <2>3. ASSUME NEW p \in DOMAIN published
        PROVE  published[p].block.mask = MaskOf(published[p].index)
    BY <2>2 DEF RInv, IInv, Entries, EntryOK
  <2>4. ASSUME NEW p \in DOMAIN published, NEW q \in 1..(p - 1),
               published[q].az = published[p].az, ~HasHostRoute
        PROVE  End(published[q].block) <= published[p].block.base
    <3>1. q \in DOMAIN published /\ q \in Nat /\ p \in Nat /\ q < p
      BY <2>1 DEF RInv, ReadBack
    <3>2. ZoneOf(q) = ZoneOf(p)
      BY <2>2, <2>4, <3>1
    <3>3. (q - 1) \div n = (p - 1) \div n
      BY <2>2, <3>1, <3>2 DEF ZoneOf
    <3>4. PositionOf(q) < PositionOf(p)
      <4> DEFINE d == (p - 1) \div n
      <4>1. /\ n * d \in Int
            /\ p - 1 = n * d + (PositionOf(p) - 1)
            /\ q - 1 = n * d + (PositionOf(q) - 1)
            /\ PositionOf(p) \in Int /\ PositionOf(q) \in Int
        BY <2>1, <2>2, <3>1, <3>3
      <4> HIDE DEF d
      <4> QED BY <3>1, <4>1
    <3>5. End(BlockOf(ZoneOf(p), PositionOf(q))) <= BlockOf(ZoneOf(p), PositionOf(p)).base
      BY <2>2, <2>4, <3>1, <3>4 DEF RInv, IInv, Ascending
    <3>6. /\ published[q].block = BlockOf(ZoneOf(p), PositionOf(q))
          /\ published[p].block = BlockOf(ZoneOf(p), PositionOf(p))
      <4>1. published[q] = [az |-> ZoneOf(q), index |-> PositionOf(q),
                            block |-> BlockOf(ZoneOf(q), PositionOf(q))]
        BY <2>2, <3>1
      <4>2. published[p] = [az |-> ZoneOf(p), index |-> PositionOf(p),
                            block |-> BlockOf(ZoneOf(p), PositionOf(p))]
        BY <2>2
      <4> QED BY <3>2, <4>1, <4>2
    <3> QED BY <3>5, <3>6
  <2> QED BY <2>3, <2>4 DEF RInv, ReadBack
<1> QED BY <1>1, ReadInvariance, PTL

-----------------------------------------------------------------------------
(* Of two aligned blocks either one contains the other, as isInSubnet has  *)
(* it, or they have no address in common.                                  *)
LEMMA AlignedIsNetmask ==
  ASSUME NEW b \in Block, Aligned(b)
  PROVE  Netmask(b.base, b.mask) = b
<1>1. b.base \in Nat /\ b.base % BlockSize[b.mask] = 0
  BY LastHostFacts DEF Aligned, Size
<1>2. b.base - (b.base % BlockSize[b.mask]) = b.base
  BY <1>1
<1> QED BY <1>2 DEF Netmask, Block

LEMMA ApartOrIn ==
  ASSUME NEW b \in Block, NEW c \in Block, Aligned(b), Aligned(c),
         b.mask >= c.mask, ~IsInSubnet(b, c)
  PROVE  Disjoint(b, c)
<1> DEFINE d == Netmask(b.base, c.mask)
           s == Size(b)
           t == Size(c)
<1>1. /\ b.base \in Nat /\ c.base \in Nat /\ b.mask \in Masks /\ c.mask \in Masks
      /\ s \in Nat \ {0} /\ t \in Nat \ {0}
      /\ End(b) = b.base + s /\ End(c) = c.base + t
  BY LastHostFacts DEF End
<1>2. t % s = 0 /\ t = BlockSize[c.mask]
  BY <1>1, SizeOrder DEF Size, Masks
<1>3. /\ d.mask = c.mask /\ d.base \in Nat /\ d.base <= b.base
      /\ b.base < d.base + t /\ d.base % t = 0
  BY <1>1, <1>2, NetmaskFacts
<1>4. d = [base |-> d.base, mask |-> c.mask] /\ c = [base |-> c.base, mask |-> c.mask]
  BY DEF Netmask, Block
<1>5. d # c
  BY AlignedIsNetmask DEF IsInSubnet
<1>6. d.base # c.base
  BY <1>4, <1>5
<1>7. b.base % s = 0 /\ c.base % t = 0
  BY DEF Aligned
<1>8. CASE d.base < c.base
  <2>1. d.base + t <= c.base
    BY <1>1, <1>3, <1>7, <1>8, MultiplesApart
  <2>2. (d.base + t) % s = 0
    <3>1. d.base % s = 0
      BY <1>1, <1>2, <1>3, MultipleOfMultiple
    <3> QED BY <1>1, <1>2, <1>3, <3>1, SumOfMultiples
  <2>3. b.base + s <= d.base + t
    BY <1>1, <1>3, <1>7, <2>2, MultiplesApart
  <2> QED BY <1>1, <1>3, <2>1, <2>3 DEF Disjoint
<1>9. CASE c.base < d.base
  <2>1. c.base + t <= d.base
    BY <1>1, <1>3, <1>7, <1>9, MultiplesApart
  <2> QED BY <1>1, <1>3, <2>1 DEF Disjoint
<1> QED BY <1>1, <1>3, <1>6, <1>8, <1>9

LEMMA NoOverlapMeansDisjoint ==
  ASSUME NEW b \in Block, NEW c \in Block, Aligned(b), Aligned(c), ~Overlaps(b, c)
  PROVE  Disjoint(b, c)
<1>1. b.mask \in Int /\ c.mask \in Int
  BY LastHostFacts DEF Masks
<1>2. CASE b.mask >= c.mask
  BY <1>2, ApartOrIn DEF Overlaps
<1>3. CASE c.mask >= b.mask
  <2>1. Disjoint(c, b)
    BY <1>3, ApartOrIn DEF Overlaps
  <2> QED BY <2>1 DEF Disjoint
<1> QED BY <1>1, <1>2, <1>3

-----------------------------------------------------------------------------
LEMMA PositionsAreFinite ==
  ASSUME NEW n \in Nat, NEW S \in SUBSET (1..n)
  PROVE  IsFiniteSet(S) /\ Cardinality(S) \in Nat
<1>1. IsFiniteSet(1..n)
  BY FS_Interval
<1>2. IsFiniteSet(S)
  BY <1>1, FS_Subset
<1> QED BY <1>2, FS_CardinalityType

LEMMA BelowTheLast ==
  ASSUME NEW n \in Nat, NEW S \in SUBSET (1..n), S # {}, n \notin S
  PROVE  n - 1 \in Nat /\ S \in SUBSET (1..(n - 1))
<1>1. \A x \in S : x \in 1..n /\ x # n
  OBVIOUS
<1>2. \A x \in S : x \in 1..(n - 1)
  BY <1>1
<1>3. PICK x \in S : TRUE
  OBVIOUS
<1> QED BY <1>2, <1>3

(* Every set of positions can be listed in ascending order: the least      *)
(* length of a list with a set of positions that cannot would be a         *)
(* contradiction.                                                          *)
IsEnumeration(e, S) ==
  /\ e \in [1..Cardinality(S) -> S]
  /\ \A j, k \in 1..Cardinality(S) : j < k => e[j] < e[k]

LEMMA EnumerationExists ==
  ASSUME NEW n \in Nat, NEW S \in SUBSET (1..n)
  PROVE  \E e : IsEnumeration(e, S)
<1> DEFINE Listed(N) == \A T \in SUBSET (1..N) : \E e : IsEnumeration(e, T)
           Bad == {N \in Nat : ~Listed(N)}
<1>1. SUFFICES ASSUME Bad # {} PROVE FALSE
  OBVIOUS
<1>2. PICK N \in Bad : \A M \in Bad : ~(<<M, N>> \in OpToRel(<, Nat))
  <2>1. Bad \subseteq Nat
    OBVIOUS
  <2> HIDE DEF Bad
  <2> QED BY <1>1, <2>1, WFMin, NatLessThanWellFounded, Zenon
<1>3. N \in Nat /\ ~Listed(N)
  OBVIOUS
<1>4. \A M \in Nat : M < N => Listed(M)
  <2> SUFFICES ASSUME NEW M \in Nat, M < N, ~Listed(M) PROVE FALSE
    OBVIOUS
  <2>1. M \in Bad
    OBVIOUS
  <2>2. <<M, N>> \in OpToRel(<, Nat)
    BY <1>3 DEF OpToRel
  <2> QED BY <1>2, <2>1, <2>2, Zenon
<1> HIDE DEF Bad, Listed
<1>5. PICK T \in SUBSET (1..N) : ~\E e : IsEnumeration(e, T)
  BY <1>3 DEF Listed
<1>6. IsFiniteSet(T) /\ Cardinality(T) \in Nat
  BY <1>3, PositionsAreFinite
<1>7. CASE T = {}
  <2>1. IsEnumeration(<<>>, T)
    <3>1. Cardinality(T) = 0
      BY <1>7, FS_EmptySet
    <3> QED BY <3>1 DEF IsEnumeration
  <2> QED BY <1>5, <2>1
<1>8. CASE T # {} /\ N \notin T
  <2>1. N - 1 \in Nat /\ N - 1 < N /\ T \in SUBSET (1..(N - 1))
    BY <1>3, <1>8, BelowTheLast
  <2>2. Listed(N - 1)
    BY <1>4, <2>1
  <2> QED BY <1>5, <2>1, <2>2 DEF Listed
<1>9. CASE N \in T
  <2> DEFINE U == T \ {N}
  <2>1. N - 1 \in Nat /\ N - 1 < N /\ U \in SUBSET (1..(N - 1))
    <3>1. N \in 1..N
      BY <1>9
    <3>2. \A x \in U : x \in 1..N /\ x # N
      OBVIOUS
    <3>3. \A x \in U : x \in 1..(N - 1)
      BY <1>3, <3>2
    <3> QED BY <1>3, <3>1, <3>3
  <2>2. Listed(N - 1)
    BY <1>4, <2>1
  <2>3. PICK e : IsEnumeration(e, U)
    BY <2>1, <2>2 DEF Listed
  <2>4. Cardinality(U) \in Nat /\ Cardinality(T) = Cardinality(U) + 1
    <3>1. IsFiniteSet(U) /\ Cardinality(U) = Cardinality(T) - 1
      BY <1>6, <1>9, FS_RemoveElement
    <3>2. Cardinality(U) \in Nat
      BY <3>1, FS_CardinalityType
    <3> QED BY <1>6, <3>1, <3>2
  <2> DEFINE k == Cardinality(U)
             f == [j \in 1..(k + 1) |-> IF j = k + 1 THEN N ELSE e[j]]
  <2>5. \A j \in 1..k : e[j] \in U
    BY <2>3 DEF IsEnumeration
  <2>6. \A j \in 1..k : e[j] < N
    <3>1. \A x \in U : x \in 1..(N - 1)
      BY <2>1
    <3>2. \A x \in U : x < N
      BY <1>3, <3>1
    <3> QED BY <2>5, <3>2
  <2>7. \A i, j \in 1..k : i < j => e[i] < e[j]
    BY <2>3 DEF IsEnumeration
  <2>8. f \in [1..(k + 1) -> T]
    <3>1. \A j \in 1..(k + 1) : j # k + 1 => j \in 1..k
      BY <2>4
    <3> QED BY <1>9, <2>5, <3>1
  <2>9. \A i, j \in 1..(k + 1) : i < j => f[i] < f[j]
    <3> SUFFICES ASSUME NEW i \in 1..(k + 1), NEW j \in 1..(k + 1), i < j
                 PROVE  f[i] < f[j]
      OBVIOUS
    <3>1. i \in 1..k /\ i # k + 1
      BY <2>4
    <3>2. CASE j = k + 1
      BY <2>6, <3>1, <3>2
    <3>3. CASE j # k + 1
      <4>1. j \in 1..k
        BY <2>4, <3>3
      <4>2. f[i] = e[i] /\ f[j] = e[j]
        BY <3>1, <3>3
      <4> QED BY <2>7, <3>1, <4>1, <4>2
    <3> QED BY <3>2, <3>3
  <2> HIDE DEF f, k
  <2>10. Cardinality(T) = k + 1
    BY <2>4 DEF k
  <2>11. IsEnumeration(f, T)
    BY <2>8, <2>9, <2>10 DEF IsEnumeration
  <2> QED BY <1>5, <2>11
<1> QED BY <1>7, <1>8, <1>9

(* The list names every position once.                                     *)
LEMMA EnumerationFacts ==
  ASSUME NEW n \in Nat, NEW S \in SUBSET (1..n)
  PROVE  /\ Cardinality(S) \in Nat /\ IsFiniteSet(S)
         /\ Enumeration(S) \in [1..Cardinality(S) -> S]
         /\ \A j, k \in 1..Cardinality(S) : Enumeration(S)[j] = Enumeration(S)[k] => j = k
         /\ \A i \in S : \E k \in 1..Cardinality(S) : Enumeration(S)[k] = i
<1> DEFINE c == Cardinality(S)
           e == Enumeration(S)
<1>1. c \in Nat /\ IsFiniteSet(S)
  BY PositionsAreFinite
<1>2. PICK f : IsEnumeration(f, S)
  BY EnumerationExists
<1>3. \E g \in [1..c -> S] : \A j, k \in DOMAIN g : j < k => g[j] < g[k]
  BY <1>2 DEF IsEnumeration
<1>4. e \in [1..c -> S] /\ \A j, k \in DOMAIN e : j < k => e[j] < e[k]
  BY <1>3, Zenon DEF Enumeration
<1> HIDE DEF e
<1>5. \A j, k \in 1..c : j < k => e[j] < e[k]
  BY <1>4
<1>6. \A j \in 1..c : e[j] \in Nat
  <2>1. \A x \in S : x \in Nat
    OBVIOUS
  <2> QED BY <1>4, <2>1
<1>7. ASSUME NEW j \in 1..c, NEW k \in 1..c, e[j] = e[k]
      PROVE  j = k
  BY <1>1, <1>5, <1>6, <1>7
<1>8. e \in Injection(1..c, S)
  BY <1>4, <1>7, Zenon DEF Injection, IsInjective
<1>9. Cardinality(1..c) = c
  BY <1>1, FS_Interval
<1>10. e \in Surjection(1..c, S)
  BY <1>1, <1>8, <1>9, FS_Injection
<1>11. \A i \in S : \E k \in 1..c : e[k] = i
  BY <1>10 DEF Surjection
<1> QED BY <1>1, <1>4, <1>7, <1>11 DEF e

-----------------------------------------------------------------------------
(* Normalisation, and the list the allocator is called with.               *)
LEMMA InputFacts ==
  ASSUME input \in Inputs
  PROVE  /\ input \in Input
         /\ input.azCount \in Nat \ {0}
         /\ IsCall(CallOf(input, Undefined))
         /\ input.strategy \in Strategies
         /\ input.strategy = "Exact" => input.specs # Undefined
         /\ input.vpc \in Block /\ Aligned(input.vpc)
         /\ input.specs # Undefined =>
              /\ input.specs \in Seq(SpecInput)
              /\ \A i \in DOMAIN input.specs : input.specs[i].blocks # Undefined =>
                   \A k \in DOMAIN input.specs[i].blocks :
                      Aligned(input.specs[i].blocks[k])
BY InputAssumption DEF Input

(* What a spec of a size alone asks for is the mask of that size.          *)
LEMMA ResolvedMaskFacts ==
  ASSUME NEW s \in SpecInput, SizeIsValid(s)
  PROVE  /\ ResolvedMask(s) \in Masks \cup {Undefined}
         /\ s.mask # Undefined => ResolvedMask(s) = s.mask
         /\ s.mask = Undefined /\ s.size # Undefined =>
              /\ ResolvedMask(s) \in Masks
              /\ ResolvedMask(s) # Undefined
              /\ BlockSize[ResolvedMask(s)] = s.size
         /\ s.mask = Undefined /\ s.size = Undefined => ResolvedMask(s) = Undefined
<1>1. s.mask \in Masks \cup {Undefined} /\ s.size # Space
  <2>1. s.size \in (Nat \ {Space}) \cup {Undefined}
    BY DEF SpecInput
  <2>2. Space \in Nat
    BY BlockSizeAssumption, WidthAssumption DEF Space
  <2> QED BY <2>1, <2>2, NothingAssumption DEF SpecInput
<1>2. CASE s.mask # Undefined \/ s.size = Undefined
  BY <1>1, <1>2 DEF ResolvedMask
<1>3. CASE s.mask = Undefined /\ s.size # Undefined
  <2> DEFINE r == ResolvedMask(s)
  <2>1. \E m \in 0..(Width - 2) : s.size = BlockSize[m]
    BY <1>3 DEF SizeIsValid
  <2>2. r = CHOOSE m \in 0..(Width - 2) : s.size = BlockSize[m]
    BY <1>3 DEF ResolvedMask
  <2> HIDE DEF r
  <2>3. r \in 0..(Width - 2) /\ s.size = BlockSize[r]
    BY <2>1, <2>2
  <2>4. r # 0
    BY <1>1, <2>3 DEF Space
  <2>5. r \in Masks /\ r \in Nat
    BY <2>3, <2>4, WidthAssumption DEF Masks
  <2> QED BY <1>3, <2>3, <2>5, NothingAssumption DEF r
<1> QED BY <1>2, <1>3

LEMMA NormalizedFacts ==
  ASSUME NEW ss \in Seq(SpecInput), InputsAgree(ss)
  PROVE  /\ Normalized(ss) \in Seq(SpecInput)
         /\ Normalized(ss) # Undefined
         /\ Len(Normalized(ss)) = Len(ss) /\ DOMAIN Normalized(ss) = DOMAIN ss
         /\ IsExplicit(Normalized(ss)) <=> IsExplicit(ss)
         /\ IsExplicit(ss) => Normalized(ss) = ss
         /\ \A i \in DOMAIN ss :
              /\ Normalized(ss)[i].type = ss[i].type
              /\ Normalized(ss)[i].name = ss[i].name
              /\ ~IsExplicit(ss) => Normalized(ss)[i].mask = ResolvedMask(ss[i])
<1>1. ss # Undefined
  BY NothingAssumption
<1>2. CASE IsExplicit(ss)
  BY <1>1, <1>2 DEF Normalized
<1>3. CASE ~IsExplicit(ss)
  <2> DEFINE t == Normalized(ss)
  <2>1. t = [i \in DOMAIN ss |-> [ss[i] EXCEPT !.mask = ResolvedMask(ss[i])]]
    BY <1>1, <1>3 DEF Normalized
  <2>2. DOMAIN ss = 1..Len(ss) /\ Len(ss) \in Nat
    OBVIOUS
  <2>3. ASSUME NEW i \in 1..Len(ss)
        PROVE  /\ t[i] = [ss[i] EXCEPT !.mask = ResolvedMask(ss[i])]
               /\ t[i] \in SpecInput
               /\ t[i].type = ss[i].type /\ t[i].name = ss[i].name
               /\ t[i].mask = ResolvedMask(ss[i]) /\ t[i].blocks = ss[i].blocks
    <3>1. ss[i] \in SpecInput /\ SizeIsValid(ss[i])
      BY <2>2, <2>3 DEF InputsAgree
    <3>2. ResolvedMask(ss[i]) \in Masks \cup {Undefined}
      BY <3>1, ResolvedMaskFacts
    <3>3. t[i] = [ss[i] EXCEPT !.mask = ResolvedMask(ss[i])]
      BY <2>1, <2>2, <2>3
    <3> HIDE DEF t
    <3> QED BY <3>1, <3>2, <3>3 DEF SpecInput
  <2>4. t \in [1..Len(ss) -> SpecInput]
    BY <2>1, <2>2, <2>3
  <2>5. t \in Seq(SpecInput) /\ Len(t) = Len(ss) /\ DOMAIN t = DOMAIN ss
    BY <2>2, <2>4
  <2> HIDE DEF t
  <2>6. t # Undefined
    BY <2>5, NothingAssumption
  <2>7. IsExplicit(t) <=> IsExplicit(ss)
    BY <2>2, <2>3, <2>5 DEF IsExplicit
  <2> QED BY <1>3, <2>2, <2>3, <2>5, <2>6, <2>7 DEF t
<1> QED BY <1>2, <1>3

-----------------------------------------------------------------------------
(* The merge with the defaults: the two defaults, then the extras.         *)
Decided == [type : Types, name : Names \cup {Undefined}, mask : Masks \cup {Undefined}]

LEMMA DefaultFacts ==
  ASSUME NEW m \in Masks, DefaultsAllowed(m)
  PROVE  /\ DefaultSpecs(m) \in [1..2 -> Decided]
         /\ \A i \in 1..2 : /\ DefaultSpecs(m)[i].type = DefaultTypes[i]
                            /\ DefaultSpecs(m)[i].name = Undefined
<1>1. DOMAIN DefaultTypes = 1..2
  BY TypesAssumption, DefaultsAssumption
<1>2. m \in Nat /\ m >= 1 /\ m <= Width - 2 /\ Width \in Nat
  BY DefaultsAssumption, WidthAssumption DEF DefaultsAllowed, Masks
<1>3. ASSUME NEW i \in 1..2
      PROVE  Larger(m, LargestDefaultMask) + i \in Masks
  <2>1. /\ Larger(m, LargestDefaultMask) \in Nat
        /\ Larger(m, LargestDefaultMask) >= 1
        /\ Larger(m, LargestDefaultMask) <= Width - 2
    BY <1>2, DefaultsAssumption DEF Larger
  <2> QED BY <1>2, <1>3, <2>1 DEF Masks
<1>4. DefaultSpecs(m) = [i \in 1..2 |->
                           [type |-> DefaultTypes[i], name |-> Undefined,
                            mask |-> Larger(m, LargestDefaultMask) + i]]
  BY <1>1 DEF DefaultSpecs, DefaultSubnetInputs
<1>5. \A i \in 1..2 : DefaultTypes[i] \in Types
  BY <1>1, TypesAssumption
<1>6. ASSUME NEW i \in 1..2
      PROVE  /\ DefaultSpecs(m)[i] \in Decided
             /\ DefaultSpecs(m)[i].type = DefaultTypes[i]
             /\ DefaultSpecs(m)[i].name = Undefined
  BY <1>3, <1>4, <1>5 DEF Decided
<1> QED BY <1>4, <1>6

LEMMA FunctionIsSeq ==
  ASSUME NEW n \in Nat, NEW S, NEW f \in [1..n -> S]
  PROVE  f \in Seq(S) /\ Len(f) = n /\ DOMAIN f = 1..n
OBVIOUS

(* A default keeps its type; an unnamed spec of that type gives its mask.  *)
LEMMA MergedDefaultFacts ==
  ASSUME NEW d \in Decided, NEW ss \in Seq(SpecInput)
  PROVE  LET r == MergedDefault(d, ss) IN
         /\ r \in Decided
         /\ r.type = d.type /\ r.name = d.name
         /\ \A i \in DOMAIN ss :
              Overrides(ss[i]) /\ ss[i].type = d.type =>
                \E k \in DOMAIN ss : /\ Overrides(ss[k]) /\ ss[k].type = d.type
                                     /\ r.mask = ss[k].mask
<1> DEFINE P(i) == Overrides(ss[i]) /\ ss[i].type = d.type
<1>1. CASE \E i \in DOMAIN ss : P(i)
  <2> DEFINE k == CHOOSE k \in DOMAIN ss : P(k)
  <2>1. k \in DOMAIN ss /\ P(k)
    BY <1>1, Zenon
  <2>2. MergedDefault(d, ss) = [d EXCEPT !.mask = ss[k].mask]
    BY <1>1, Zenon DEF MergedDefault
  <2> HIDE DEF k
  <2>3. ss[k].mask \in Masks \cup {Undefined}
    <3>1. ss[k] \in SpecInput
      BY <2>1
    <3> QED BY <3>1 DEF SpecInput
  <2> QED BY <2>1, <2>2, <2>3 DEF Decided
<1>2. CASE ~\E i \in DOMAIN ss : P(i)
  <2>1. MergedDefault(d, ss) = d
    BY <1>2 DEF MergedDefault
  <2> QED BY <1>2, <2>1
<1> QED BY <1>1, <1>2

ExtraAt(ss, k) == Enumeration(ExtraPositions(ss))[k]

LEMMA MergedFacts ==
  ASSUME NEW m \in Masks, DefaultsAllowed(m), NEW ss \in Seq(SpecInput)
  PROVE  LET c == Cardinality(ExtraPositions(ss)) IN
         /\ c \in Nat
         /\ Merged(ss, m) \in Seq(Decided)
         /\ Len(Merged(ss, m)) = c + 2
         /\ \A i \in 1..2 : Merged(ss, m)[i] = MergedDefault(DefaultSpecs(m)[i], ss)
         /\ \A k \in 1..c :
              /\ ExtraAt(ss, k) \in ExtraPositions(ss)
              /\ Merged(ss, m)[k + 2] =
                   [type |-> ss[ExtraAt(ss, k)].type, name |-> ss[ExtraAt(ss, k)].name,
                    mask |-> ss[ExtraAt(ss, k)].mask]
<1> DEFINE X == ExtraPositions(ss)
           c == Cardinality(X)
           e == Enumeration(X)
           A == [i \in DOMAIN DefaultTypes |-> MergedDefault(DefaultSpecs(m)[i], ss)]
           B == [k \in DOMAIN e |-> [type |-> ss[e[k]].type, name |-> ss[e[k]].name,
                                     mask |-> ss[e[k]].mask]]
<1>1. X \in SUBSET (1..Len(ss)) /\ Len(ss) \in Nat
  BY DEF ExtraPositions
<1>2. c \in Nat /\ e \in [1..c -> X]
  BY <1>1, EnumerationFacts
<1>3. DOMAIN DefaultTypes = 1..2
  BY TypesAssumption, DefaultsAssumption
<1>4. A \in [1..2 -> Decided]
  <2>1. ASSUME NEW i \in 1..2 PROVE MergedDefault(DefaultSpecs(m)[i], ss) \in Decided
    <3>1. DefaultSpecs(m)[i] \in Decided
      BY DefaultFacts
    <3> QED BY <3>1, MergedDefaultFacts
  <2> QED BY <1>3, <2>1
<1>5. B \in [1..c -> Decided]
  <2> HIDE DEF e, c, X
  <2>1. ASSUME NEW k \in 1..c
        PROVE  [type |-> ss[e[k]].type, name |-> ss[e[k]].name, mask |-> ss[e[k]].mask] \in Decided
    <3>1. e[k] \in DOMAIN ss
      <4>1. e[k] \in X
        BY <1>2, <2>1
      <4>2. \A x \in X : x \in DOMAIN ss
        BY <1>1
      <4> QED BY <4>1, <4>2
    <3>2. ss[e[k]] \in SpecInput
      BY <3>1
    <3> QED BY <3>2 DEF SpecInput, Decided
  <2> QED BY <1>2, <2>1
<1>6. Merged(ss, m) = A \o B
  BY DEF Merged
<1>7. \A k \in 1..c : B[k] = [type |-> ss[e[k]].type, name |-> ss[e[k]].name,
                              mask |-> ss[e[k]].mask]
  BY <1>2
<1>8. \A i \in 1..2 : A[i] = MergedDefault(DefaultSpecs(m)[i], ss)
  BY <1>3
<1>9. \A k \in 1..c : e[k] \in X /\ e[k] = ExtraAt(ss, k)
  BY <1>2 DEF ExtraAt
<1> HIDE DEF A, B, e, c, X
<1>10. /\ A \in Seq(Decided) /\ Len(A) = 2
       /\ B \in Seq(Decided) /\ Len(B) = c
  <2>1. 2 \in Nat
    OBVIOUS
  <2>2. A \in Seq(Decided) /\ Len(A) = 2
    BY <1>4, <2>1, FunctionIsSeq
  <2>3. B \in Seq(Decided) /\ Len(B) = c
    BY <1>2, <1>5
  <2> QED BY <2>2, <2>3
<1>11. /\ A \o B \in Seq(Decided) /\ Len(A \o B) = 2 + c
       /\ \A i \in 1..2 : (A \o B)[i] = A[i]
       /\ \A k \in 1..c : (A \o B)[k + 2] = B[k]
  <2> DEFINE AB == A \o B
  <2>5. /\ AB \in Seq(Decided)
        /\ Len(AB) = Len(A) + Len(B)
        /\ \A i \in 1..(Len(A) + Len(B)) :
             AB[i] = IF i <= Len(A) THEN A[i] ELSE B[i - Len(A)]
    BY <1>10, ConcatProperties, Zenon
  <2> HIDE DEF AB
  <2>1. AB \in Seq(Decided) /\ Len(AB) = 2 + c
    BY <1>10, <2>5
  <2>2. \A i \in 1..(2 + c) : AB[i] = IF i <= 2 THEN A[i] ELSE B[i - 2]
    BY <1>10, <2>5
  <2>3. \A k \in 1..c : k + 2 \in 1..(2 + c) /\ ~(k + 2 <= 2) /\ (k + 2) - 2 = k
    BY <1>2
  <2>4. \A k \in 1..c : AB[k + 2] = B[k]
    BY <2>2, <2>3
  <2> QED BY <1>2, <2>1, <2>2, <2>4 DEF AB
<1>12. \A k \in 1..c : Merged(ss, m)[k + 2] =
          [type |-> ss[ExtraAt(ss, k)].type, name |-> ss[ExtraAt(ss, k)].name,
           mask |-> ss[ExtraAt(ss, k)].mask]
  <2> SUFFICES ASSUME NEW k \in 1..c
               PROVE  Merged(ss, m)[k + 2] =
                        [type |-> ss[ExtraAt(ss, k)].type,
                         name |-> ss[ExtraAt(ss, k)].name,
                         mask |-> ss[ExtraAt(ss, k)].mask]
    OBVIOUS
  <2>1. Merged(ss, m)[k + 2] = B[k] /\ e[k] = ExtraAt(ss, k)
    BY <1>6, <1>9, <1>11
  <2> QED BY <1>7, <2>1
<1> QED BY <1>2, <1>6, <1>8, <1>9, <1>11, <1>12 DEF c, X

-----------------------------------------------------------------------------
(* The inductive invariant.                                                *)

(* What parsedSpecs has established.                                       *)
Parsed ==
  /\ input \in Inputs
  /\ normalized # Undefined =>
       /\ input.specs # Undefined
       /\ InputsAgree(input.specs)
       /\ normalized = Normalized(input.specs)
       /\ input.strategy = "AutoMerge" => ~IsExplicit(input.specs)
  /\ stage = "given" => normalized = Undefined
  /\ stage \notin {"given", "failed"} /\ input.specs # Undefined
       => normalized # Undefined

(* The list of specs exists: AutoMerge needs the defaults.                 *)
Mergeable ==
  input.strategy = "AutoMerge" => AzMask \in Masks /\ DefaultsAllowed(AzMask)

UsesDefaults == normalized = Undefined /\ input.strategy # "AutoMerge"

Untouched ==
  /\ request = CallOf(input, Undefined)
  /\ specs = <<>> /\ required = <<>>
  /\ az = 1 /\ index = 1
  /\ azBlock = Undefined /\ current = Undefined
  /\ allocation = <<>> /\ published = <<>>

(* The call was made with the list decided on, and the allocator works on  *)
(* that list.                                                              *)
Called ==
  /\ RInv
  /\ ~UsesExplicit
  /\ Mergeable
  /\ request = CallOf(input, IF UsesDefaults THEN Undefined
                             ELSE AsAllocatorInput(DecidedSpecs))
  /\ phase \in {"sizing", "placing", "published"} /\ ~UsesDefaults
       => specs = request.specs

(* The layout has one subnet per zone and spec, in that order, each where  *)
(* it was stated or of the size that was decided.                          *)
SubnetOf(ss, p) ==
  LET s == ss[SpecAt(ss, p)] IN
  /\ layout[p] = [az |-> ZoneAt(ss, p), spec |-> SpecAt(ss, p), type |-> s.type,
                  name |-> SpecName(s), block |-> layout[p].block]
  /\ layout[p].block \in Block
  /\ Aligned(layout[p].block)
  /\ UsesExplicit => layout[p].block = s.blocks[ZoneAt(ss, p)]
  /\ ~UsesExplicit /\ ~UsesDefaults /\ s.mask # Undefined
       => layout[p].block.mask = s.mask

LaidOut ==
  /\ Mergeable
  /\ Len(DecidedSpecs) # 0
  /\ layout \in Seq([az : Nat, spec : Nat, type : Types, name : Names, block : Block])
  /\ Len(layout) = input.azCount * Len(DecidedSpecs)
  /\ \A p \in DOMAIN layout : SubnetOf(DecidedSpecs, p)

Checked ==
  /\ NoOverlaps
  /\ input.strategy = "Exact" /\ input.prompt => NoGaps

LInv ==
  /\ stage \in Stages /\ phase \in Phases \cup {"idle"}
  /\ Parsed
  /\ IF phase = "idle" THEN Untouched ELSE Called
  /\ stage \in {"given", "normalized"} => phase = "idle"
  /\ stage = "allocating" => phase # "idle"
  /\ stage \in {"given", "normalized", "allocating"} => layout = <<>>
  /\ stage \in {"decided", "accepted"} => LaidOut
  /\ stage = "failed" => layout = <<>> \/ LaidOut
  /\ stage = "accepted" => Checked

-----------------------------------------------------------------------------
(* The list of specs decided on.                                           *)
LEMMA ParsedFacts ==
  ASSUME Parsed, normalized # Undefined
  PROVE  /\ normalized \in Seq(SpecInput)
         /\ input.specs \in Seq(SpecInput) /\ input.specs # Undefined
         /\ InputsAgree(input.specs)
         /\ UsesExplicit <=> IsExplicit(input.specs)
         /\ UsesExplicit => input.strategy # "AutoMerge" /\ normalized = input.specs
<1>1. /\ input.specs \in Seq(SpecInput) /\ InputsAgree(input.specs)
      /\ normalized = Normalized(input.specs)
  BY InputFacts DEF Parsed
<1> QED BY <1>1, NormalizedFacts DEF Parsed, UsesExplicit

LEMMA DecidedFacts ==
  ASSUME Parsed, Mergeable
  PROVE  LET ss == DecidedSpecs IN
         /\ Len(ss) \in Nat /\ DOMAIN ss = 1..Len(ss)
         /\ \A i \in DOMAIN ss : ss[i].type \in Types /\ ss[i].name \in Names \cup {Undefined}
         /\ \A i \in DOMAIN ss : ~UsesDefaults => ss[i].mask \in Masks \cup {Undefined}
         /\ UsesDefaults => Len(ss) = 2
         /\ UsesExplicit => ss = normalized
<1>1. CASE input.strategy = "AutoMerge"
  <2>1. UserSpecs \in Seq(SpecInput)
    BY ParsedFacts DEF UserSpecs
  <2>2. DecidedSpecs \in Seq(Decided)
    BY <1>1, <2>1, MergedFacts DEF DecidedSpecs, Mergeable
  <2>3. ~UsesExplicit /\ ~UsesDefaults
    BY <1>1, ParsedFacts DEF UsesExplicit, UsesDefaults
  <2> HIDE DEF Decided
  <2>4. /\ Len(DecidedSpecs) \in Nat /\ DOMAIN DecidedSpecs = 1..Len(DecidedSpecs)
        /\ \A i \in DOMAIN DecidedSpecs : DecidedSpecs[i] \in Decided
    BY <2>2
  <2> QED BY <2>3, <2>4 DEF Decided
<1>2. CASE UsesDefaults
  <2>1. DecidedSpecs = DefaultSpecs(AzMask)
    BY <1>2 DEF UsesDefaults, DecidedSpecs
  <2>2. DOMAIN DefaultTypes = 1..2 /\ \A i \in 1..2 : DefaultTypes[i] \in Types
    BY TypesAssumption, DefaultsAssumption
  <2>3. DecidedSpecs = [i \in 1..2 |->
                          [type |-> DefaultTypes[i], name |-> Undefined,
                           mask |-> DefaultSubnetInputs(AzMask)[i].mask]]
    BY <2>1, <2>2 DEF DefaultSpecs
  <2>4. Len(DecidedSpecs) = 2 /\ DOMAIN DecidedSpecs = 1..2
    BY <2>3
  <2>5. ~UsesExplicit
    BY <1>2 DEF UsesExplicit, UsesDefaults
  <2> QED BY <1>2, <2>2, <2>3, <2>4, <2>5
<1>3. CASE input.strategy # "AutoMerge" /\ normalized # Undefined
  <2>1. DecidedSpecs = normalized
    BY <1>3 DEF DecidedSpecs
  <2>2. normalized \in Seq(SpecInput)
    BY <1>3, ParsedFacts
  <2>3. \A i \in DOMAIN normalized : normalized[i] \in SpecInput
    BY <2>2
  <2> QED BY <1>3, <2>1, <2>2, <2>3 DEF SpecInput, UsesDefaults
<1> QED BY <1>1, <1>2, <1>3 DEF UsesDefaults

(* The number of zones and specs, and where the p-th subnet stands.        *)
LEMMA PlaceOf ==
  ASSUME Parsed, Mergeable, Len(DecidedSpecs) # 0,
         NEW p \in 1..(input.azCount * Len(DecidedSpecs))
  PROVE  /\ ZoneAt(DecidedSpecs, p) \in 1..input.azCount
         /\ SpecAt(DecidedSpecs, p) \in DOMAIN DecidedSpecs
<1>1. Len(DecidedSpecs) \in Nat \ {0} /\ DOMAIN DecidedSpecs = 1..Len(DecidedSpecs)
  BY DecidedFacts
<1>2. input.azCount \in Nat
  BY InputFacts DEF Parsed
<1> QED BY <1>1, <1>2, EntryFacts DEF ZoneAt, SpecAt

-----------------------------------------------------------------------------
(* What depends on the arguments and the normalised specs alone.           *)
LEMMA ListSettled ==
  ASSUME UNCHANGED <<input, normalized>>
  PROVE  /\ AzMask' = AzMask
         /\ UsesExplicit' <=> UsesExplicit
         /\ UsesDefaults' <=> UsesDefaults
         /\ Mergeable' <=> Mergeable
         /\ DecidedSpecs' = DecidedSpecs
         /\ InputsAgree(input.specs)' <=> InputsAgree(input.specs)
         /\ CallOf(input, Undefined)' = CallOf(input, Undefined)
<1>1. AzMask' = AzMask
  BY DEF AzMask, CallOf
<1>2. UsesExplicit' <=> UsesExplicit
  BY DEF UsesExplicit
<1>3. UsesDefaults' <=> UsesDefaults
  BY DEF UsesDefaults
<1>4. Mergeable' <=> Mergeable
  BY <1>1 DEF Mergeable
<1>5. DecidedSpecs' = DecidedSpecs
  BY <1>1 DEF DecidedSpecs, UserSpecs
<1>6. InputsAgree(input.specs)' <=> InputsAgree(input.specs)
  BY DEF InputsAgree, ExplicitAgrees
<1> QED BY <1>1, <1>2, <1>3, <1>4, <1>5, <1>6 DEF CallOf

LEMMA ParsedSettled ==
  ASSUME Parsed, UNCHANGED <<input, normalized>>,
         stage' = "given" => stage = "given",
         stage' \notin {"given", "failed"} => stage \notin {"given", "failed"}
  PROVE  Parsed'
BY ListSettled DEF Parsed

LEMMA LaidOutSettled ==
  ASSUME LaidOut, UNCHANGED <<input, normalized, layout>>
  PROVE  LaidOut'
<1>1. /\ DecidedSpecs' = DecidedSpecs /\ Mergeable'
      /\ (UsesExplicit' <=> UsesExplicit) /\ (UsesDefaults' <=> UsesDefaults)
  BY ListSettled DEF LaidOut
<1>2. \A p : SubnetOf(DecidedSpecs, p)' <=> SubnetOf(DecidedSpecs, p)
  BY <1>1 DEF SubnetOf
<1> QED BY <1>1, <1>2 DEF LaidOut

LEMMA CheckedSettled ==
  ASSUME Checked, UNCHANGED <<input, layout>>
  PROVE  Checked'
BY DEF Checked, NoOverlaps, NoGaps, EndsWithVpc

LEMMA CalledSettled ==
  ASSUME Called, UNCHANGED <<input, normalized, vars>>
  PROVE  Called'
<1>1. RInv'
  <2>1. IInv /\ Named /\ ReadBack
    BY DEF Called, RInv
  <2>2. [Next]_vars
    OBVIOUS
  <2> QED BY <2>1, <2>2, InductiveInv, NamedInv, ReadBackInv DEF RInv
<1>2. /\ DecidedSpecs' = DecidedSpecs /\ (UsesDefaults' <=> UsesDefaults)
      /\ ~UsesExplicit' /\ Mergeable'
  BY ListSettled DEF Called
<1>3. UNCHANGED <<request, phase, specs>>
  BY DEF vars
<1> QED BY <1>1, <1>2, <1>3 DEF Called, CallOf

LEMMA UntouchedSettled ==
  ASSUME Untouched, UNCHANGED <<input, vars>>
  PROVE  Untouched'
BY DEF Untouched, vars, CallOf

(* A layout of blocks that fit the list is what the list asks for.         *)
FitsAt(blocks, p) ==
  LET s == DecidedSpecs[SpecAt(DecidedSpecs, p)] IN
  /\ blocks[p] \in Block
  /\ Aligned(blocks[p])
  /\ UsesExplicit => blocks[p] = s.blocks[ZoneAt(DecidedSpecs, p)]
  /\ ~UsesExplicit /\ ~UsesDefaults /\ s.mask # Undefined => blocks[p].mask = s.mask

LEMMA LayoutOfFacts ==
  ASSUME Parsed, Mergeable, Len(DecidedSpecs) # 0, NEW blocks,
         \A p \in 1..(input.azCount * Len(DecidedSpecs)) : FitsAt(blocks, p),
         layout' = LayoutOf(DecidedSpecs, blocks),
         UNCHANGED <<input, normalized>>
  PROVE  LaidOut'
<1> DEFINE ss == DecidedSpecs
           n == input.azCount * Len(ss)
           R == [az : Nat, spec : Nat, type : Types, name : Names, block : Block]
           entry(p) == [az |-> ZoneAt(ss, p), spec |-> SpecAt(ss, p),
                        type |-> ss[SpecAt(ss, p)].type,
                        name |-> SpecName(ss[SpecAt(ss, p)]), block |-> blocks[p]]
<1>1. n \in Nat
  BY InputFacts, DecidedFacts DEF Parsed
<1>2. layout' = [p \in 1..n |-> entry(p)]
  BY DEF LayoutOf
<1>3. ASSUME NEW p \in 1..n PROVE entry(p) \in R
  <2>1. ZoneAt(ss, p) \in Nat /\ SpecAt(ss, p) \in Nat /\ SpecAt(ss, p) \in DOMAIN ss
    <3>1. ZoneAt(ss, p) \in 1..input.azCount /\ SpecAt(ss, p) \in DOMAIN ss
      BY PlaceOf
    <3>2. DOMAIN ss = 1..Len(ss)
      BY DecidedFacts
    <3> QED BY <3>1, <3>2
  <2>2. /\ ss[SpecAt(ss, p)].type \in Types
        /\ ss[SpecAt(ss, p)].name \in Names \cup {Undefined}
    BY <2>1, DecidedFacts
  <2>3. SpecName(ss[SpecAt(ss, p)]) \in Names
    BY <2>2, TypesAssumption DEF SpecName
  <2>4. blocks[p] \in Block
    BY DEF FitsAt
  <2> QED BY <2>1, <2>2, <2>3, <2>4
<1> HIDE DEF n, R
<1>4. layout' \in [1..n -> R]
  BY <1>2, <1>3
<1>5. layout' \in Seq(R) /\ Len(layout') = n /\ DOMAIN layout' = 1..n
  BY <1>1, <1>4, FunctionIsSeq
<1>6. /\ DecidedSpecs' = ss /\ Mergeable' /\ (UsesExplicit' <=> UsesExplicit)
      /\ UsesDefaults' <=> UsesDefaults
  BY ListSettled
<1>7. ASSUME NEW p \in 1..n PROVE SubnetOf(DecidedSpecs, p)'
  <2>1. layout'[p] = entry(p) /\ layout'[p].block = blocks[p]
    BY <1>2
  <2>2. FitsAt(blocks, p)
    BY DEF n
  <2> HIDE DEF ss
  <2> QED BY <1>6, <2>1, <2>2 DEF SubnetOf, FitsAt, ss
<1> QED BY <1>5, <1>6, <1>7 DEF LaidOut, n, R

-----------------------------------------------------------------------------
(* One lemma per action.                                                   *)
LEMMA LayoutInitInv == LayoutInit => LInv
<1> SUFFICES ASSUME LayoutInit PROVE LInv
  OBVIOUS
<1>1. input \in Inputs /\ normalized = Undefined /\ stage = "given" /\ phase = "idle"
  BY DEF LayoutInit
<1>2. Parsed
  BY <1>1 DEF Parsed
<1>3. Untouched
  BY DEF LayoutInit, Untouched
<1> QED BY <1>1, <1>2, <1>3 DEF LInv, LayoutInit, Stages

LEMMA RejectInv ==
  ASSUME LInv, Reject
  PROVE  LInv'
<1>1. /\ stage' = "failed"
      /\ UNCHANGED <<input, normalized, layout, vars>>
      /\ UNCHANGED <<phase>>
  BY DEF Reject, vars
<1>2. Parsed'
  BY <1>1, ParsedSettled DEF LInv
<1>3. IF phase' = "idle" THEN Untouched' ELSE Called'
  BY <1>1, UntouchedSettled, CalledSettled DEF LInv
<1>4. layout' = <<>> \/ LaidOut'
  BY <1>1, LaidOutSettled DEF LInv, Stages
<1> QED BY <1>1, <1>2, <1>3, <1>4 DEF LInv, Stages

LEMMA NormalizeInv ==
  ASSUME LInv, Normalize
  PROVE  LInv'
<1>1. CASE Reject
  BY <1>1, RejectInv
<1>2. CASE ~Reject
  <2>1. /\ stage = "given" /\ stage' = "normalized"
        /\ normalized' = Normalized(input.specs)
        /\ UNCHANGED <<input, layout, vars>>
        /\ UNCHANGED <<phase>>
        /\ input.specs # Undefined =>
             /\ input.strategy = "AutoMerge" => ~IsExplicit(input.specs)
             /\ InputsAgree(input.specs)
    BY <1>2 DEF Normalize, vars
  <2>2. InputsAgree(input.specs)' <=> InputsAgree(input.specs)
    BY <2>1 DEF InputsAgree, ExplicitAgrees
  <2>3. input.specs = Undefined => Normalized(input.specs) = Undefined
    BY DEF Normalized
  <2>4. input.specs # Undefined => Normalized(input.specs) # Undefined
    BY <2>1, InputFacts, NormalizedFacts DEF LInv, Parsed
  <2>5. Parsed'
    BY <2>1, <2>2, <2>3, <2>4 DEF LInv, Parsed
  <2>6. Untouched' /\ layout' = <<>> /\ phase' = "idle"
    BY <2>1, UntouchedSettled DEF LInv
  <2> QED BY <2>1, <2>5, <2>6 DEF LInv, Stages
<1> QED BY <1>1, <1>2

LEMMA AllocateExplicitInv ==
  ASSUME LInv, AllocateExplicit
  PROVE  LInv'
<1> DEFINE blocks == [p \in 1..(input.azCount * Len(normalized)) |->
                        normalized[SpecAt(normalized, p)].blocks[ZoneAt(normalized, p)]]
<1>1. /\ stage = "normalized" /\ UsesExplicit /\ stage' = "decided"
      /\ layout' = LayoutOf(normalized, blocks)
      /\ UNCHANGED <<input, normalized, vars>>
      /\ UNCHANGED <<phase>>
  BY DEF AllocateExplicit, vars
<1>2. Parsed /\ phase = "idle" /\ Untouched /\ normalized # Undefined
  BY <1>1 DEF LInv, UsesExplicit
<1>3. /\ normalized \in Seq(SpecInput) /\ normalized = input.specs
      /\ InputsAgree(normalized) /\ IsExplicit(normalized)
      /\ input.strategy # "AutoMerge"
  BY <1>1, <1>2, ParsedFacts
<1>4. Mergeable /\ DecidedSpecs = normalized
  BY <1>2, <1>3 DEF Mergeable, DecidedSpecs
<1>5. Len(normalized) # 0
  BY <1>3 DEF IsExplicit
<1>6. ASSUME NEW p \in 1..(input.azCount * Len(normalized))
      PROVE  FitsAt(blocks, p)
  <2> DEFINE i == SpecAt(normalized, p)
             k == ZoneAt(normalized, p)
  <2>1. i \in DOMAIN normalized /\ k \in 1..input.azCount
    BY <1>2, <1>4, <1>5, PlaceOf
  <2> HIDE DEF i, k
  <2>2. normalized[i] \in SpecInput /\ ExplicitAgrees(normalized[i])
    BY <1>3, <2>1 DEF InputsAgree
  <2>3. /\ normalized[i].blocks # Undefined
        /\ normalized[i].blocks \in Seq(Block)
        /\ Len(normalized[i].blocks) = input.azCount
    BY <2>2 DEF SpecInput, ExplicitAgrees
  <2>4. k \in DOMAIN normalized[i].blocks
    BY <2>1, <2>3
  <2>5. normalized[i].blocks[k] \in Block
    BY <2>3, <2>4
  <2>6. Aligned(normalized[i].blocks[k])
    BY <1>2, <1>3, <2>1, <2>3, <2>4, InputFacts DEF Parsed
  <2>7. blocks[p] = normalized[i].blocks[k]
    BY DEF i, k
  <2> HIDE DEF blocks
  <2> QED BY <1>1, <1>4, <2>5, <2>6, <2>7 DEF FitsAt, i, k
<1> HIDE DEF blocks
<1>7. LaidOut'
  BY <1>1, <1>2, <1>4, <1>5, <1>6, LayoutOfFacts
<1>8. Parsed' /\ Untouched'
  BY <1>1, <1>2, ParsedSettled, UntouchedSettled
<1> QED BY <1>1, <1>2, <1>7, <1>8 DEF LInv, Stages

(* The list as the allocator's argument.                                   *)
LEMMA AllocatorInputFacts ==
  ASSUME Parsed, Mergeable, ~UsesDefaults
  PROVE  LET r == AsAllocatorInput(DecidedSpecs) IN
         /\ r \in Seq(SubnetSpecInput)
         /\ r # Undefined
         /\ Len(r) = Len(DecidedSpecs)
         /\ \A i \in DOMAIN DecidedSpecs : r[i].mask = DecidedSpecs[i].mask
<1> DEFINE ss == DecidedSpecs
           r == AsAllocatorInput(ss)
<1>1. /\ Len(ss) \in Nat /\ DOMAIN ss = 1..Len(ss)
      /\ \A i \in DOMAIN ss : ss[i].type \in Types /\ ss[i].name \in Names \cup {Undefined}
      /\ \A i \in DOMAIN ss : ss[i].mask \in Masks \cup {Undefined}
  BY DecidedFacts
<1> HIDE DEF ss
<1>2. r = [i \in 1..Len(ss) |-> [name |-> SpecName(ss[i]), mask |-> ss[i].mask]]
  BY <1>1 DEF AsAllocatorInput
<1>3. ASSUME NEW i \in 1..Len(ss)
      PROVE  [name |-> SpecName(ss[i]), mask |-> ss[i].mask] \in SubnetSpecInput
  <2>1. SpecName(ss[i]) \in Names
    BY <1>1, <1>3, TypesAssumption DEF SpecName
  <2> QED BY <1>1, <1>3, <2>1 DEF SubnetSpecInput
<1>4. r \in [1..Len(ss) -> SubnetSpecInput]
  BY <1>2, <1>3
<1>5. r \in Seq(SubnetSpecInput) /\ Len(r) = Len(ss)
  BY <1>1, <1>4, FunctionIsSeq
<1>6. r # Undefined
  BY <1>5, NothingAssumption
<1>7. \A i \in DOMAIN ss : r[i].mask = ss[i].mask
  BY <1>1, <1>2
<1> QED BY <1>5, <1>6, <1>7 DEF ss

LEMMA CallAllocatorInv ==
  ASSUME LInv, CallAllocator
  PROVE  LInv'
<1>1. CASE Reject
  BY <1>1, RejectInv
<1>2. CASE ~Reject
  <2> DEFINE arguments == IF UsesDefaults THEN Undefined
                          ELSE AsAllocatorInput(DecidedSpecs)
  <2>1. /\ stage = "normalized" /\ stage' = "allocating" /\ ~UsesExplicit
        /\ Mergeable
        /\ request' = CallOf(input, arguments) /\ phase' = "called"
        /\ UNCHANGED <<input, normalized, layout, specs, required, az, index,
                       azBlock, current, allocation, published>>
    BY <1>2 DEF CallAllocator, Mergeable, UsesDefaults
  <2>2. Parsed /\ Untouched /\ layout = <<>>
    BY <2>1 DEF LInv
  <2>3. arguments \in Seq(SubnetSpecInput) \cup {Undefined}
    BY <2>1, <2>2, AllocatorInputFacts
  <2>4. IsCall(request')
    <3>1. IsCall(CallOf(input, Undefined)) /\ input \in Input
      BY <2>2, InputFacts DEF Parsed
    <3> HIDE DEF arguments
    <3>2. CallOf(input, arguments) \in Request
      BY <2>3, <3>1 DEF Input, Request, CallOf
    <3>3. /\ AzBitmask(CallOf(input, arguments)) = AzBitmask(CallOf(input, Undefined))
          /\ CallOf(input, arguments).vpc = CallOf(input, Undefined).vpc
          /\ CallOf(input, arguments).azCount = CallOf(input, Undefined).azCount
      BY DEF CallOf, AzBitmask
    <3> QED BY <2>1, <3>1, <3>2, <3>3 DEF IsCall
  <2>5. /\ specs' = <<>> /\ required' = <<>> /\ az' = 1 /\ index' = 1
        /\ azBlock' = Undefined /\ current' = Undefined
        /\ allocation' = <<>> /\ published' = <<>>
    BY <2>1, <2>2 DEF Untouched
  <2>6. TypeOK'
    <3>1. DOMAIN <<>> = {}
      OBVIOUS
    <3> QED BY <2>1, <2>4, <2>5, <3>1 DEF TypeOK, Phases
  <2>7. RInv'
    BY <2>1, <2>5, <2>6 DEF RInv, IInv, Named, ReadBack
  <2>8. Called'
    BY <2>1, <2>7, ListSettled DEF Called, CallOf
  <2>9. Parsed'
    BY <2>1, <2>2, ParsedSettled
  <2> QED BY <2>1, <2>2, <2>8, <2>9 DEF LInv, Stages, Phases
<1> QED BY <1>1, <1>2

LEMMA AllocatorStepInv ==
  ASSUME LInv, AllocatorStep
  PROVE  LInv'
<1>1. /\ stage = "allocating" /\ Next
      /\ UNCHANGED <<input, stage, normalized, layout>>
  BY DEF AllocatorStep
<1>2. Parsed /\ Called /\ phase # "idle" /\ layout = <<>>
  BY <1>1 DEF LInv
<1>3. RInv'
  BY <1>1, <1>2, InductiveInv, NamedInv, ReadBackInv DEF Called, RInv
<1>4. UNCHANGED request /\ phase' \in Phases
  BY <1>1, <1>3
  DEF Next, ChooseSpecs, AddSize, CheckTotal, PlaceSubnet, NextAz, Publish, Throw,
      RInv, IInv, TypeOK
<1>5. ASSUME phase' \in {"sizing", "placing", "published"}, ~UsesDefaults
      PROVE  specs' = request.specs
  <2>1. CASE ChooseSpecs
    <3>1. request.specs # Undefined
      BY <1>2, <1>5, AllocatorInputFacts DEF Called, CallOf
    <3> QED BY <1>5, <2>1, <3>1 DEF ChooseSpecs, Throw
  <2>2. CASE ~ChooseSpecs
    <3>1. specs' = specs /\ phase \in {"sizing", "placing", "published"}
      BY <1>1, <1>5, <2>2
      DEF Next, AddSize, CheckTotal, PlaceSubnet, NextAz, Publish, Throw
    <3> QED BY <1>2, <1>5, <3>1 DEF Called
  <2> QED BY <2>1, <2>2
<1>6. Called'
  BY <1>1, <1>2, <1>3, <1>4, <1>5, ListSettled DEF Called, CallOf
<1>7. Parsed'
  BY <1>1, <1>2, ParsedSettled
<1> QED BY <1>1, <1>2, <1>4, <1>6, <1>7 DEF LInv, Stages, Phases

LEMMA CollectInv ==
  ASSUME LInv, Collect
  PROVE  LInv'
<1>1. CASE Reject
  BY <1>1, RejectInv
<1>2. CASE ~Reject
  <2> DEFINE blocks == [p \in DOMAIN published |-> published[p].block]
             n == Len(DecidedSpecs)
  <2>1. /\ stage = "allocating" /\ stage' = "decided" /\ phase = "published"
        /\ layout' = LayoutOf(DecidedSpecs, blocks)
        /\ UNCHANGED <<input, normalized, vars>>
        /\ UNCHANGED <<phase>>
    BY <1>2 DEF Collect, vars
  <2>2. Parsed /\ Called /\ Mergeable /\ ~UsesExplicit
    BY <2>1 DEF LInv, Called
  <2>3. request.azCount = input.azCount
    BY <2>2 DEF Called, CallOf
  <2>4. /\ Len(specs) \in Nat \ {0}
        /\ DOMAIN published = 1..(request.azCount * Len(specs))
        /\ \A p \in DOMAIN published :
             /\ published[p].block = BlockOf(ZoneOf(p), PositionOf(p))
             /\ ZoneOf(p) \in Zones /\ PositionOf(p) \in 1..Len(specs)
             /\ Reached(ZoneOf(p), PositionOf(p))
    <3>1. RInv /\ phase = "published"
      BY <2>1, <2>2 DEF Called
    <3> QED BY <3>1, ReadBackFacts
  <2>5. /\ Len(specs) = n
        /\ ~UsesDefaults => \A i \in 1..n : specs[i].mask = DecidedSpecs[i].mask
    <3>1. CASE UsesDefaults
      <4>1. request.specs = Undefined
        BY <2>2, <3>1 DEF Called, CallOf
      <4>2. Len(specs) = Len(DefaultTypes)
        BY <2>1, <2>2, <4>1 DEF Called, RInv, Named, BareSpecNames
      <4> QED BY <2>2, <3>1, <4>2, DecidedFacts, DefaultsAssumption
    <3>2. CASE ~UsesDefaults
      <4>1. specs = AsAllocatorInput(DecidedSpecs)
        BY <2>1, <2>2, <3>2 DEF Called, CallOf
      <4>2. DOMAIN DecidedSpecs = 1..n
        BY <2>2, DecidedFacts
      <4> QED BY <2>2, <3>2, <4>1, <4>2, AllocatorInputFacts
    <3> QED BY <3>1, <3>2
  <2>6. n # 0
    BY <2>4, <2>5
  <2>7. ASSUME NEW p \in 1..(input.azCount * n)
        PROVE  FitsAt(blocks, p)
    <3> DEFINE a == ZoneOf(p)
               i == PositionOf(p)
    <3>1. p \in DOMAIN published
      BY <2>3, <2>4, <2>5
    <3>2. /\ published[p].block = BlockOf(a, i)
          /\ a \in Zones /\ i \in 1..n /\ i \in 1..Len(specs) /\ Reached(a, i)
      BY <2>4, <2>5, <3>1
    <3>3. i = SpecAt(DecidedSpecs, p)
      BY <2>5 DEF PositionOf, SpecAt
    <3> HIDE DEF a, i, n
    <3>4. TypeOK /\ Filled /\ Entries
      BY <2>1, <2>2 DEF Called, RInv, IInv
    <3>5. BlockOf(a, i) \in Block
      BY <3>2, <3>4 DEF Filled, TypeOK, BlockOf
    <3>6. EntryOK(a, i)
      BY <3>2, <3>4 DEF Entries
    <3>7. Aligned(BlockOf(a, i)) /\ BlockOf(a, i).mask = MaskOf(i)
      BY <3>6 DEF EntryOK, Aligned
    <3>8. ~UsesDefaults /\ DecidedSpecs[i].mask # Undefined
            => MaskOf(i) = DecidedSpecs[i].mask
      BY <2>5, <3>2 DEF MaskOf
    <3>9. blocks[p] = BlockOf(a, i)
      BY <3>1, <3>2
    <3> HIDE DEF blocks
    <3> QED BY <2>2, <3>3, <3>5, <3>7, <3>8, <3>9 DEF FitsAt
  <2> HIDE DEF blocks
  <2>8. LaidOut'
    BY <2>1, <2>2, <2>6, <2>7, LayoutOfFacts
  <2>9. Parsed' /\ Called'
    BY <2>1, <2>2, ParsedSettled, CalledSettled
  <2> QED BY <2>1, <2>8, <2>9 DEF LInv, Stages, Phases
<1> QED BY <1>1, <1>2

LEMMA ValidateInv ==
  ASSUME LInv, Validate
  PROVE  LInv'
<1>1. CASE Reject
  BY <1>1, RejectInv
<1>2. CASE ~Reject
  <2>1. /\ stage = "decided" /\ stage' = "accepted" /\ Checked
        /\ UNCHANGED <<input, normalized, layout, vars>>
        /\ UNCHANGED <<phase>>
    BY <1>2 DEF Validate, Checked, vars
  <2>2. Parsed' /\ LaidOut' /\ Checked'
    BY <2>1, ParsedSettled, LaidOutSettled, CheckedSettled DEF LInv
  <2>3. IF phase' = "idle" THEN Untouched' ELSE Called'
    BY <2>1, UntouchedSettled, CalledSettled DEF LInv
  <2> QED BY <2>1, <2>2, <2>3 DEF LInv, Stages
<1> QED BY <1>1, <1>2

LEMMA LayoutStutterInv ==
  ASSUME LInv, UNCHANGED layoutVars
  PROVE  LInv'
<1>1. /\ UNCHANGED <<input, stage, normalized, layout, vars>>
      /\ UNCHANGED <<phase>>
  BY DEF layoutVars, vars
<1>2. Parsed'
  BY <1>1, ParsedSettled DEF LInv
<1>3. IF phase' = "idle" THEN Untouched' ELSE Called'
  BY <1>1, UntouchedSettled, CalledSettled DEF LInv
<1>4. (LaidOut => LaidOut') /\ (Checked => Checked')
  BY <1>1, LaidOutSettled, CheckedSettled
<1> QED BY <1>1, <1>2, <1>3, <1>4 DEF LInv, Stages

LEMMA LayoutInvariance == LayoutSpec => []LInv
<1>1. LInv /\ [LayoutNext]_layoutVars => LInv'
  <2> SUFFICES ASSUME LInv, [LayoutNext]_layoutVars PROVE LInv'
    OBVIOUS
  <2>1. CASE Normalize
    BY <2>1, NormalizeInv
  <2>2. CASE AllocateExplicit
    BY <2>2, AllocateExplicitInv
  <2>3. CASE CallAllocator
    BY <2>3, CallAllocatorInv
  <2>4. CASE AllocatorStep
    BY <2>4, AllocatorStepInv
  <2>5. CASE Collect
    BY <2>5, CollectInv
  <2>6. CASE Validate
    BY <2>6, ValidateInv
  <2>7. CASE UNCHANGED layoutVars
    BY <2>7, LayoutStutterInv
  <2> QED BY <2>1, <2>2, <2>3, <2>4, <2>5, <2>6, <2>7 DEF LayoutNext
<1> QED BY <1>1, LayoutInitInv, PTL DEF LayoutSpec

-----------------------------------------------------------------------------
(* validateSubnets accepts a layout only if no two of its subnets share an *)
(* address: that neither contains the other is enough, as blocks are       *)
(* aligned to their sizes, whichever allocator they come from.             *)
THEOREM AcceptedShareNothing == LayoutSpec => []AcceptedIsDisjoint
<1>1. LInv => AcceptedIsDisjoint
  <2> SUFFICES ASSUME LInv, stage = "accepted",
                      NEW p \in DOMAIN layout, NEW q \in DOMAIN layout, p # q
               PROVE  Disjoint(layout[p].block, layout[q].block)
    BY DEF AcceptedIsDisjoint
  <2>1. LaidOut /\ NoOverlaps
    BY DEF LInv, Checked
  <2>2. /\ layout[p].block \in Block /\ Aligned(layout[p].block)
        /\ layout[q].block \in Block /\ Aligned(layout[q].block)
    BY <2>1 DEF LaidOut, SubnetOf
  <2>3. ~Overlaps(layout[p].block, layout[q].block)
    BY <2>1 DEF NoOverlaps
  <2> QED BY <2>2, <2>3, NoOverlapMeansDisjoint
<1> QED BY <1>1, LayoutInvariance, PTL

-----------------------------------------------------------------------------
(* Gaps.  Netmask.next() leads to the end of a block, or, from the last    *)
(* one of the address space, back to its start.                            *)
LEMMA NextBaseFacts ==
  ASSUME NEW b \in Block, Aligned(b)
  PROVE  /\ End(b) <= Space
         /\ End(b) # Space => NextBlock(b).base = End(b)
         /\ End(b) = Space => NextBlock(b).base = 0
<1>1. /\ b.base \in Nat /\ b.mask \in Masks /\ b.base < Space
      /\ Size(b) \in Nat \ {0} /\ Space \in Nat \ {0}
      /\ Space % Size(b) = 0 /\ b.base % Size(b) = 0
      /\ End(b) \in Nat /\ End(b) = b.base + Size(b)
  BY LastHostFacts, SizeFacts DEF Aligned, Block, Addresses, Size, End
<1>2. End(b) <= Space
  BY <1>1, MultiplesApart
<1>3. ASSUME End(b) # Space PROVE NextBlock(b).base = End(b)
  <2>1. End(b) < Space
    BY <1>1, <1>2, <1>3
  <2> QED BY <1>1, <2>1, NextBlockFacts
<1>4. ASSUME End(b) = Space PROVE NextBlock(b).base = 0
  <2>1. End(b) % Space = 0 /\ 0 % BlockSize[b.mask] = 0
    BY <1>1, <1>4 DEF Size
  <2> QED BY <2>1 DEF NextBlock, Netmask
<1> QED BY <1>2, <1>3, <1>4

LEMMA LeastExists ==
  ASSUME NEW S, S \subseteq Nat, S # {}
  PROVE  \E x \in S : \A y \in S : x <= y
<1>1. \E x \in S : \A y \in S : ~(<<y, x>> \in OpToRel(<, Nat))
  BY WFMin, NatLessThanWellFounded, Zenon
<1>2. \E x \in S : \A y \in S : ~(y < x)
  BY <1>1, Zenon DEF OpToRel
<1> QED BY <1>2

(* Equal last hosts are equal ends, when the subnet is no /31 or /32: a    *)
(* VPC of such a size does not start where a larger block can.             *)
LEMMA SameLastHost ==
  ASSUME NEW b \in Block, Aligned(b), NEW c \in Block, Aligned(c),
         NEW first \in Block, Aligned(first), first.base = c.base,
         b.mask <= Width - 2, first.mask <= Width - 2,
         LastHost(b) = LastHost(c)
  PROVE  End(b) = End(c)
<1>1. /\ b.base \in Nat /\ c.base \in Nat /\ first.base \in Nat
      /\ b.mask \in Masks /\ c.mask \in Masks /\ first.mask \in Masks
      /\ Size(b) \in Nat \ {0} /\ Size(c) \in Nat \ {0} /\ Size(first) \in Nat \ {0}
      /\ End(b) = b.base + Size(b) /\ End(c) = c.base + Size(c)
  BY LastHostFacts DEF End
<1>2. CASE c.mask <= Width - 2
  BY <1>1, <1>2 DEF LastHost
<1>3. CASE ~(c.mask <= Width - 2)
  <2>1. End(b) - 2 = End(c) - 1
    BY <1>1, <1>3 DEF LastHost
  <2>2. /\ Width - 2 \in Masks /\ BlockSize[Width - 2] = 4
        /\ c.mask \in {Width - 1, Width}
        /\ BlockSize[Width] = 1 /\ BlockSize[Width - 1] = 2
    <3>1. Width \in Nat /\ c.mask \in {Width - 1, Width} /\ Width - 2 \in 1..Width
      BY <1>1, <1>3, WidthAssumption DEF Masks
    <3>2. /\ Width - 1 \in 0..(Width - 1) /\ Width - 2 \in 0..(Width - 1)
          /\ (Width - 1) + 1 = Width /\ (Width - 2) + 1 = Width - 1
      BY <3>1
    <3>3. /\ BlockSize[Width] = 1 /\ BlockSize[Width - 1] = 2 * BlockSize[Width]
          /\ BlockSize[Width - 2] = 2 * BlockSize[Width - 1]
      BY <3>2, BlockSizeAssumption
    <3> QED BY <3>1, <3>3 DEF Masks
  <2>3. Size(b) % 4 = 0 /\ Size(first) % 4 = 0
    BY <1>1, <2>2, SizeOrder DEF Size
  <2>4. /\ b.base % 4 = 0 /\ c.base % 4 = 0
    BY <1>1, <2>3, MultipleOfMultiple DEF Aligned
  <2>5. End(b) % 4 = 0
    BY <1>1, <2>3, <2>4, SumOfMultiples
  <2>6. Size(c) \in {1, 2}
    BY <2>2 DEF Size
  <2> QED BY <1>1, <2>1, <2>4, <2>5, <2>6
<1> QED BY <1>2, <1>3

(* A list of aligned blocks, apart from one another, each starting where   *)
(* next() of the one before does, never passes the end of the address      *)
(* space: what came after would lie below the first block for good.        *)
Chain(blocks, n) ==
  /\ \A p \in 1..n : blocks[p] \in Block /\ Aligned(blocks[p])
  /\ \A p \in 2..n : blocks[p].base = NextBlock(blocks[p - 1]).base
  /\ \A p, q \in 1..n : p # q => Disjoint(blocks[p], blocks[q])

LEMMA ChainNeverWraps ==
  ASSUME NEW n \in Nat \ {0}, NEW blocks, Chain(blocks, n),
         End(blocks[n]) > blocks[1].base, NEW p \in 2..n
  PROVE  blocks[p].base = End(blocks[p - 1])
<1> DEFINE first == blocks[1].base
           Beyond == {m \in p..n : End(blocks[m]) > first}
<1>1. \A m \in 1..n : /\ blocks[m].base \in Nat /\ End(blocks[m]) \in Nat
                      /\ blocks[m].base < End(blocks[m])
                      /\ End(blocks[m]) <= Space
                      /\ End(blocks[m]) # Space => NextBlock(blocks[m]).base = End(blocks[m])
                      /\ End(blocks[m]) = Space => NextBlock(blocks[m]).base = 0
  BY LastHostFacts, NextBaseFacts DEF Chain, End
<1>2. p - 1 \in 1..n /\ p \in 1..n /\ 1 \in 1..n /\ p # 1
  OBVIOUS
<1>3. SUFFICES ASSUME End(blocks[p - 1]) = Space PROVE FALSE
  BY <1>1, <1>2 DEF Chain
<1>4. blocks[p].base = 0
  BY <1>1, <1>2, <1>3 DEF Chain
<1>5. \A m \in p..n : m \in 1..n /\ m # 1 /\ m \in Nat
  OBVIOUS
<1>6. \A m \in p..n : End(blocks[m]) <= first \/ End(blocks[1]) <= blocks[m].base
  BY <1>2, <1>5 DEF Chain, Disjoint
<1>7. first \in Nat /\ first < End(blocks[1]) /\ End(blocks[1]) <= Space
      /\ End(blocks[1]) \in Nat /\ Space \in Nat
  BY <1>1, <1>2, SizeFacts, BlockSizeAssumption, WidthAssumption DEF Space
<1>8. Beyond \subseteq Nat /\ n \in Beyond
  BY <1>5
<1>9. PICK m \in Beyond : \A k \in Beyond : m <= k
  <2> HIDE DEF Beyond
  <2>1. Beyond # {}
    BY <1>8
  <2> QED BY <1>8, <2>1, LeastExists
<1>10. m \in p..n /\ m \in 1..n /\ End(blocks[m]) > first
  BY <1>5, <1>9
<1>11. CASE m = p
  <2>1. blocks[m].base = 0
    BY <1>4, <1>11
  <2> QED BY <1>1, <1>6, <1>7, <1>10, <2>1
<1>12. CASE m # p
  <2>1. m - 1 \in p..n /\ m - 1 \in 1..n /\ m \in 2..n /\ m - 1 < m
    BY <1>2, <1>10, <1>12
  <2>2. m - 1 \notin Beyond
    BY <1>9, <2>1
  <2>3. End(blocks[m - 1]) <= first
    BY <1>1, <1>7, <2>1, <2>2
  <2>4. blocks[m].base = End(blocks[m - 1])
    BY <1>1, <1>7, <2>1, <2>3 DEF Chain
  <2> QED BY <1>1, <1>6, <1>7, <1>10, <2>1, <2>3, <2>4
<1> QED BY <1>11, <1>12

(* validateNoGaps compares first addresses with next() and last hosts with *)
(* one another; what it accepts is a tiling of the VPC.                    *)
THEOREM ExactIsTiled == LayoutSpec => []ExactTiles
<1>1. LInv => ExactTiles
  <2> SUFFICES ASSUME LInv, stage = "accepted", input.strategy = "Exact",
                      input.prompt, ~HasTinySubnet
               PROVE  Tiles
    BY DEF ExactTiles
  <2> DEFINE n == Len(layout)
             blocks == [p \in 1..n |-> layout[p].block]
  <2>1. LaidOut /\ NoOverlaps /\ NoGaps
    BY DEF LInv, Checked
  <2>2. input.vpc \in Block /\ Aligned(input.vpc)
    BY InputFacts DEF LInv, Parsed
  <2>3. n \in Nat \ {0} /\ DOMAIN layout = 1..n
    <3>1. n \in Nat /\ DOMAIN layout = 1..n
      BY <2>1 DEF LaidOut
    <3>2. n # 0
      BY <2>1, <3>1 DEF NoGaps, LaidOut
    <3> QED BY <3>1, <3>2
  <2>4. \A p \in 1..n : /\ blocks[p] = layout[p].block /\ blocks[p] \in Block
                        /\ Aligned(blocks[p]) /\ blocks[p].mask <= Width - 2
    <3> SUFFICES ASSUME NEW p \in 1..n
                 PROVE  /\ blocks[p] = layout[p].block /\ blocks[p] \in Block
                        /\ Aligned(blocks[p]) /\ blocks[p].mask <= Width - 2
      OBVIOUS
    <3>1. layout[p].block \in Block /\ Aligned(layout[p].block)
      BY <2>1, <2>3 DEF LaidOut, SubnetOf
    <3>2. ~(layout[p].block.mask > Width - 2)
      BY <2>3 DEF HasTinySubnet
    <3>3. layout[p].block.mask \in Int /\ Width \in Int
      BY <3>1, LastHostFacts, WidthAssumption DEF Masks
    <3> QED BY <3>1, <3>2, <3>3
  <2>5. Chain(blocks, n)
    <3>1. ASSUME NEW p \in 1..n, NEW q \in 1..n, p # q
          PROVE  Disjoint(blocks[p], blocks[q])
      <4>1. ~Overlaps(blocks[p], blocks[q])
        BY <2>1, <2>3, <2>4, <3>1 DEF NoOverlaps
      <4> HIDE DEF blocks
      <4> QED BY <2>4, <4>1, NoOverlapMeansDisjoint
    <3>2. ASSUME NEW p \in 2..n
          PROVE  blocks[p].base = NextBlock(blocks[p - 1]).base
      <4>1. p \in 1..n /\ p - 1 \in 1..n
        BY <2>3
      <4> QED BY <2>1, <2>4, <4>1 DEF NoGaps
    <3> HIDE DEF blocks
    <3> QED BY <2>4, <3>1, <3>2 DEF Chain
  <2>6. /\ 1 \in 1..n /\ n \in 1..n
        /\ blocks[1].base = input.vpc.base
        /\ LastHost(blocks[n]) = LastHost(input.vpc)
    BY <2>1, <2>3, <2>4 DEF NoGaps, EndsWithVpc
  <2>7. \A p \in 2..n : p \in 1..n /\ p - 1 \in 1..n
    BY <2>3
  <2> HIDE DEF n, blocks
  <2>8. End(blocks[n]) = End(input.vpc)
    BY <2>2, <2>4, <2>6, SameLastHost
  <2>9. End(blocks[n]) > blocks[1].base
    BY <2>2, <2>6, <2>8, LastHostFacts DEF End
  <2>10. \A p \in 2..n : blocks[p].base = End(blocks[p - 1])
    BY <2>3, <2>5, <2>9, ChainNeverWraps
  <2> QED BY <2>1, <2>4, <2>6, <2>7, <2>8, <2>10 DEF Tiles, NoGaps, n
<1> QED BY <1>1, LayoutInvariance, PTL

-----------------------------------------------------------------------------
(* Counting.  The positions of a list that ask for a type and a name; a    *)
(* zone has as many subnets of them.                                       *)
Asks(ss, type, name) ==
  {i \in DOMAIN ss : ss[i].type = type /\ SpecName(ss[i]) = name}

LEMMA QuotientIsUnique ==
  ASSUME NEW n \in Nat \ {0}, NEW q \in Nat, NEW r \in 0..(n - 1)
  PROVE  (n * q + r) \div n = q /\ (n * q + r) % n = r
<1> DEFINE x == n * q + r
<1>1. n * q \in Nat /\ x \in Nat /\ x = n * q + r
  OBVIOUS
<1> HIDE DEF x
<1> DEFINE d == x \div n
           e == x % n
<1>2. d \in Nat /\ e \in 0..(n - 1) /\ x = n * d + e
  BY <1>1, DivisionFacts
<1> HIDE DEF d, e
<1>3. n * d + e = n * q + r
  BY <1>1, <1>2
<1>4. ~(d < q)
  <2> SUFFICES ASSUME d < q PROVE FALSE
    OBVIOUS
  <2>1. n * (d + 1) <= n * q /\ n * (d + 1) = n * d + n
    BY <1>2
  <2>2. n * d \in Nat
    BY <1>2
  <2> QED BY <1>1, <1>2, <1>3, <2>1, <2>2
<1>5. ~(q < d)
  <2> SUFFICES ASSUME q < d PROVE FALSE
    OBVIOUS
  <2>1. n * (q + 1) <= n * d /\ n * (q + 1) = n * q + n
    BY <1>2
  <2>2. n * d \in Nat
    BY <1>2
  <2> QED BY <1>1, <1>2, <1>3, <2>1, <2>2
<1>6. d = q
  BY <1>2, <1>4, <1>5
<1>7. e = r
  BY <1>1, <1>2, <1>3, <1>6
<1> QED BY <1>6, <1>7 DEF d, e, x

(* The position in the layout of a zone's subnet.                          *)
LEMMA PositionFacts ==
  ASSUME Parsed, Mergeable, Len(DecidedSpecs) # 0,
         NEW zone \in 1..input.azCount, NEW i \in DOMAIN DecidedSpecs
  PROVE  LET n == Len(DecidedSpecs)
             p == n * (zone - 1) + i
         IN  /\ p \in 1..(input.azCount * n)
             /\ ZoneAt(DecidedSpecs, p) = zone
             /\ SpecAt(DecidedSpecs, p) = i
<1> DEFINE n == Len(DecidedSpecs)
           p == n * (zone - 1) + i
<1>1. n \in Nat \ {0} /\ i \in 1..n
  BY DecidedFacts
<1>2. input.azCount \in Nat
  BY InputFacts DEF Parsed
<1>3. ZoneAt(DecidedSpecs, p) = ((p - 1) \div n) + 1 /\ SpecAt(DecidedSpecs, p) = ((p - 1) % n) + 1
  BY DEF ZoneAt, SpecAt
<1> HIDE DEF n
<1>4. zone - 1 \in Nat /\ i - 1 \in 0..(n - 1) /\ n * (zone - 1) \in Nat
  BY <1>1, <1>2
<1>5. (n * (zone - 1) + (i - 1)) \div n = zone - 1 /\ (n * (zone - 1) + (i - 1)) % n = i - 1
  BY <1>1, <1>4, QuotientIsUnique
<1>6. p - 1 = n * (zone - 1) + (i - 1)
  BY <1>1, <1>4
<1>7. ((p - 1) \div n) + 1 = zone /\ ((p - 1) % n) + 1 = i
  <2>1. (p - 1) \div n = zone - 1 /\ (p - 1) % n = i - 1
    BY <1>5, <1>6, Zenon
  <2>2. zone \in Int /\ i \in Int
    BY <1>1, <1>2
  <2> HIDE DEF p
  <2> QED BY <2>1, <2>2
<1>8. p \in 1..(input.azCount * n)
  <2>1. n * zone = n * (zone - 1) + n
    BY <1>1, <1>2
  <2>2. n * zone <= n * input.azCount /\ n * input.azCount = input.azCount * n
    BY <1>1, <1>2
  <2>3. input.azCount * n \in Nat
    BY <1>1, <1>2
  <2> QED BY <1>1, <1>4, <2>1, <2>2, <2>3
<1> QED BY <1>3, <1>7, <1>8 DEF n

LEMMA ZoneHasAll ==
  ASSUME Parsed, LaidOut, NEW zone \in 1..input.azCount, NEW type, NEW name
  PROVE  Cardinality(MatchesIn(zone, type, name))
           = Cardinality(Asks(DecidedSpecs, type, name))
<1> DEFINE ss == DecidedSpecs
           n == Len(ss)
           D == Asks(ss, type, name)
           M == MatchesIn(zone, type, name)
           f == [i \in D |-> n * (zone - 1) + i]
<1>1. Mergeable /\ n \in Nat \ {0} /\ DOMAIN ss = 1..n
  BY DecidedFacts DEF LaidOut
<1>2. DOMAIN layout = 1..(input.azCount * n)
  BY DEF LaidOut
<1>3. \A p \in DOMAIN layout :
        /\ layout[p].az = ZoneAt(ss, p) /\ layout[p].type = ss[SpecAt(ss, p)].type
        /\ layout[p].name = SpecName(ss[SpecAt(ss, p)])
  BY DEF LaidOut, SubnetOf
<1>4. ASSUME NEW i \in D PROVE f[i] \in M
  <2>1. i \in DOMAIN ss /\ ss[i].type = type /\ SpecName(ss[i]) = name
    BY DEF Asks
  <2>2. /\ n * (zone - 1) + i \in 1..(input.azCount * n)
        /\ ZoneAt(ss, n * (zone - 1) + i) = zone
        /\ SpecAt(ss, n * (zone - 1) + i) = i
    BY <1>1, <2>1, PositionFacts
  <2>3. f[i] = n * (zone - 1) + i
    OBVIOUS
  <2> HIDE DEF ss, n, f
  <2> QED BY <1>2, <1>3, <2>1, <2>2, <2>3 DEF MatchesIn
<1>5. ASSUME NEW i \in D, NEW j \in D, f[i] = f[j] PROVE i = j
  <2>1. i \in 1..n /\ j \in 1..n
    BY <1>1 DEF Asks
  <2>2. n * (zone - 1) \in Int
    BY <1>1, InputFacts DEF Parsed
  <2>3. n * (zone - 1) + i = n * (zone - 1) + j
    BY <1>5
  <2> HIDE DEF n
  <2> QED BY <2>1, <2>2, <2>3
<1>6. ASSUME NEW p \in M PROVE \E i \in D : f[i] = p
  <2> DEFINE i == SpecAt(ss, p)
  <2>1. /\ p \in DOMAIN layout /\ layout[p].az = zone /\ layout[p].type = type
        /\ layout[p].name = name
    BY DEF MatchesIn
  <2>2. p \in 1..(input.azCount * n)
    BY <1>2, <2>1
  <2>3. ZoneAt(ss, p) = zone /\ i \in DOMAIN ss /\ ss[i].type = type /\ SpecName(ss[i]) = name
    BY <1>1, <1>3, <2>1, <2>2, PlaceOf
  <2>4. i \in D
    BY <2>3 DEF Asks
  <2>5. p - 1 = n * ((p - 1) \div n) + ((p - 1) % n) /\ (p - 1) \div n \in Nat
    BY <1>1, <2>2, InputFacts, EntryFacts DEF Parsed
  <2>6. ZoneAt(ss, p) = ((p - 1) \div n) + 1 /\ i = ((p - 1) % n) + 1
    BY DEF ZoneAt, SpecAt
  <2>7. f[i] = n * (zone - 1) + i
    BY <2>4
  <2>8. zone \in Nat /\ i \in Nat /\ p \in Nat
    BY <1>1, <2>2, <2>3, InputFacts DEF Parsed
  <2> HIDE DEF n, i, f
  <2> DEFINE d == (p - 1) \div n
             r == (p - 1) % n
  <2>9. d + 1 = zone /\ i = r + 1 /\ p - 1 = n * d + r /\ d \in Nat
    BY <2>3, <2>5, <2>6
  <2> HIDE DEF d, r
  <2>10. d = zone - 1
    BY <2>8, <2>9
  <2>11. r = i - 1 \/ r \notin Int
    BY <2>8, <2>9
  <2>12. r \in Int
    BY <1>1, <2>2 DEF r
  <2>13. n * (zone - 1) + i = p
    <3>1. p - 1 = n * (zone - 1) + r /\ n * (zone - 1) \in Int
      BY <1>1, <2>8, <2>9, <2>10
    <3> QED BY <2>8, <2>11, <2>12, <3>1
  <2> QED BY <2>4, <2>7, <2>13
<1>7. IsFiniteSet(D)
  <2>1. D \in SUBSET (1..n)
    BY <1>1 DEF Asks
  <2> QED BY <1>1, <2>1, PositionsAreFinite
<1> HIDE DEF f, D, M
<1>8. f \in [D -> M]
  BY <1>4 DEF f
<1>9. f \in Bijection(D, M)
  <2>1. f \in Injection(D, M)
    BY <1>5, <1>8, Zenon DEF Injection, IsInjective
  <2>2. f \in Surjection(D, M)
    BY <1>6, <1>8, Zenon DEF Surjection
  <2> QED BY <2>1, <2>2 DEF Bijection
<1>10. Cardinality(M) = Cardinality(D)
  BY <1>7, <1>9, FS_Bijection DEF ExistsBijection
<1> QED BY <1>10 DEF M, D

(* The extras of the merged list are the ones of the user's.               *)
LEMMA ExtrasKept ==
  ASSUME NEW m \in Masks, DefaultsAllowed(m), NEW ss \in Seq(SpecInput),
         NEW type, NEW name
  PROVE  LET P == Asks(Merged(ss, m), type, name) \ (1..2)
             Q == Asks(ss, type, name) \cap ExtraPositions(ss)
         IN  IsFiniteSet(P) /\ IsFiniteSet(Q) /\ Cardinality(P) = Cardinality(Q)
<1> DEFINE X == ExtraPositions(ss)
           c == Cardinality(X)
           e(k) == ExtraAt(ss, k)
           t == Merged(ss, m)
           P == Asks(t, type, name) \ (1..2)
           Q == Asks(ss, type, name) \cap X
           f == [p \in P |-> e(p - 2)]
<1>1. /\ X \in SUBSET (1..Len(ss)) /\ Len(ss) \in Nat
      /\ \A i \in X : i \in DOMAIN ss /\ i \in 1..Len(ss)
  BY DEF ExtraPositions
<1>2. /\ c \in Nat
      /\ \A j, k \in 1..c : e(j) = e(k) => j = k
      /\ \A i \in X : \E k \in 1..c : e(k) = i
  BY <1>1, EnumerationFacts DEF ExtraAt
<1>3. /\ Len(t) = c + 2 /\ t \in Seq(Decided)
      /\ \A k \in 1..c : /\ e(k) \in X
                         /\ t[k + 2].type = ss[e(k)].type
                         /\ t[k + 2].name = ss[e(k)].name
  <2>1. /\ Len(t) = c + 2 /\ t \in Seq(Decided)
        /\ \A k \in 1..c :
             /\ ExtraAt(ss, k) \in X
             /\ t[k + 2] = [type |-> ss[ExtraAt(ss, k)].type,
                            name |-> ss[ExtraAt(ss, k)].name,
                            mask |-> ss[ExtraAt(ss, k)].mask]
    BY MergedFacts
  <2> HIDE DEF X, c, t
  <2>2. ASSUME NEW k \in 1..c
        PROVE  /\ e(k) \in X
               /\ t[k + 2].type = ss[e(k)].type
               /\ t[k + 2].name = ss[e(k)].name
    <3>1. t[k + 2] = [type |-> ss[e(k)].type, name |-> ss[e(k)].name,
                      mask |-> ss[e(k)].mask]
      BY <2>1
    <3> HIDE DEF e
    <3>2. t[k + 2].type = ss[e(k)].type /\ t[k + 2].name = ss[e(k)].name
      BY <3>1
    <3> QED BY <2>1, <3>2 DEF e
  <2> HIDE DEF e
  <2> QED BY <2>1, <2>2
<1> HIDE DEF X, c, e, t
<1>4. DOMAIN t = 1..(c + 2)
  BY <1>3
<1>5. ASSUME NEW p \in P
      PROVE  p - 2 \in 1..c /\ (p - 2) + 2 = p /\ f[p] = e(p - 2) /\ f[p] \in Q /\ p \in Int
  <2>1. /\ p \in 1..(c + 2) /\ p \notin 1..2
        /\ t[p].type = type /\ SpecName(t[p]) = name
    BY <1>4 DEF Asks
  <2>2. p - 2 \in 1..c /\ (p - 2) + 2 = p
    BY <1>2, <2>1
  <2>3. /\ e(p - 2) \in X /\ ss[e(p - 2)].type = t[p].type
        /\ ss[e(p - 2)].name = t[p].name
    BY <1>3, <2>2
  <2>4. e(p - 2) \in DOMAIN ss
    BY <1>1, <2>3
  <2>5. SpecName(ss[e(p - 2)]) = SpecName(t[p])
    BY <2>3 DEF SpecName
  <2>6. e(p - 2) \in Q
    BY <2>1, <2>3, <2>4, <2>5 DEF Asks
  <2> QED BY <2>1, <2>2, <2>6
<1>6. ASSUME NEW i \in Q PROVE \E p \in P : f[p] = i
  <2>1. i \in X /\ ss[i].type = type /\ SpecName(ss[i]) = name
    BY DEF Asks
  <2>2. PICK k \in 1..c : e(k) = i
    BY <1>2, <2>1
  <2>3. t[k + 2].type = ss[i].type /\ t[k + 2].name = ss[i].name
    BY <1>3, <2>2
  <2>4. k + 2 \in 1..(c + 2) /\ k + 2 \notin 1..2 /\ (k + 2) - 2 = k
    BY <1>2
  <2>5. k + 2 \in P
    BY <1>4, <2>1, <2>3, <2>4 DEF Asks, SpecName
  <2> QED BY <2>2, <2>4, <2>5
<1>7. ASSUME NEW p \in P, NEW q \in P, f[p] = f[q] PROVE p = q
  <2>1. p - 2 = q - 2
    BY <1>2, <1>5, <1>7
  <2> QED BY <1>5, <2>1
<1>8. IsFiniteSet(P) /\ IsFiniteSet(Q)
  <2>1. \A p \in P : p \in 1..(c + 2)
    BY <1>4 DEF Asks
  <2>2. \A i \in Q : i \in 1..Len(ss)
    BY <1>1
  <2> HIDE DEF P, Q
  <2>3. P \in SUBSET (1..(c + 2)) /\ Q \in SUBSET (1..Len(ss))
    BY <2>1, <2>2
  <2>4. c + 2 \in Nat
    BY <1>2
  <2> QED BY <1>1, <2>3, <2>4, PositionsAreFinite
<1> HIDE DEF P, Q, f
<1>9. f \in [P -> Q]
  BY <1>5 DEF f
<1>10. f \in Bijection(P, Q)
  <2>1. f \in Injection(P, Q)
    BY <1>7, <1>9, Zenon DEF Injection, IsInjective
  <2>2. f \in Surjection(P, Q)
    BY <1>6, <1>9, Zenon DEF Surjection
  <2> QED BY <2>1, <2>2 DEF Bijection
<1>11. Cardinality(P) = Cardinality(Q)
  BY <1>8, <1>10, FS_Bijection DEF ExistsBijection
<1> QED BY <1>8, <1>11 DEF P, Q, t, X

(* A default is in the merged list once, for an unnamed spec of its type   *)
(* or on its own account.                                                  *)
Unnamed(ss, type) == \E i \in DOMAIN ss : ss[i].type = type /\ ss[i].name = Undefined

LEMMA MergeKeepsCount ==
  ASSUME NEW m \in Masks, DefaultsAllowed(m), NEW ss \in Seq(SpecInput),
         NamesAreUnique(ss), NEW type \in Types, NEW name
  PROVE  Cardinality(Asks(Merged(ss, m), type, name)) =
           Cardinality(Asks(ss, type, name))
             + IF name = type /\ (\E k \in DOMAIN DefaultTypes : DefaultTypes[k] = type)
                  /\ ~Unnamed(ss, type)
               THEN 1 ELSE 0
<1> DEFINE X == ExtraPositions(ss)
           t == Merged(ss, m)
           A == Asks(t, type, name)
           B == Asks(ss, type, name)
           P == A \ (1..2)
           Q == B \cap X
<1>1. IsFiniteSet(P) /\ IsFiniteSet(Q) /\ Cardinality(P) = Cardinality(Q)
  BY ExtrasKept
<1>2. Cardinality(Q) \in Nat
  BY <1>1, FS_CardinalityType
<1>3. DOMAIN DefaultTypes = 1..2 /\ \A i \in 1..2 : DefaultTypes[i] # Undefined
  BY TypesAssumption, DefaultsAssumption, NothingAssumption
<1>4. \A i \in 1..2 : i \in A <=> DefaultTypes[i] = type /\ name = type
  <2> SUFFICES ASSUME NEW i \in 1..2
               PROVE  i \in A <=> DefaultTypes[i] = type /\ name = type
    OBVIOUS
  <2>1. t[i].type = DefaultTypes[i] /\ t[i].name = Undefined
    <3>1. DefaultSpecs(m)[i] \in Decided /\ t[i] = MergedDefault(DefaultSpecs(m)[i], ss)
      BY DefaultFacts, MergedFacts
    <3>2. t[i].type = DefaultSpecs(m)[i].type /\ t[i].name = DefaultSpecs(m)[i].name
      BY <3>1, MergedDefaultFacts
    <3> QED BY <3>2, DefaultFacts
  <2>2. i \in DOMAIN t
    <3>1. t \in Seq(Decided) /\ Len(t) = Cardinality(X) + 2 /\ Cardinality(X) \in Nat
      BY MergedFacts
    <3> HIDE DEF t, X
    <3> QED BY <3>1
  <2> HIDE DEF t
  <2> QED BY <2>1, <2>2 DEF Asks, SpecName
<1>5. \A i \in B : i \notin X <=> ss[i].name = Undefined /\ IsDefaultType(ss[i])
  BY DEF Asks, ExtraPositions, Overrides
<1>6. \A i \in B : ss[i].name = Undefined => name = type
  BY DEF Asks, SpecName
<1>7. \A i, j \in B : ss[i].name = Undefined /\ ss[j].name = Undefined => i = j
  BY DEF Asks, NamesAreUnique
<1> DEFINE Default == name = type /\ \E k \in 1..2 : DefaultTypes[k] = type
<1>8. \A i \in B : ss[i].type = type
  BY DEF Asks
<1>9. \A i \in DOMAIN ss : name = type /\ ss[i].type = type /\ ss[i].name = Undefined => i \in B
  BY DEF Asks, SpecName
<1>10. CASE ~Default
  <2>1. A = P
    BY <1>4, <1>10
  <2>2. B = Q
    <3>1. \A i \in B : i \in X
      BY <1>3, <1>5, <1>6, <1>8, <1>10 DEF IsDefaultType
    <3> QED BY <3>1
  <2> HIDE DEF A, B, P, Q
  <2> QED BY <1>1, <1>2, <1>3, <1>10, <2>1, <2>2 DEF A, B
<1>11. CASE Default
  <2>1. PICK k \in 1..2 : DefaultTypes[k] = type
    BY <1>11
  <2>2. \A i \in 1..2 : i \in A <=> i = k
    BY <1>3, <1>4, <1>11, <2>1, TypesAssumption
  <2>3. A = P \cup {k} /\ k \notin P
    BY <2>2
  <2>4. Cardinality(A) = Cardinality(Q) + 1
    <3> HIDE DEF A, P, Q
    <3> QED BY <1>1, <2>3, FS_AddElement
  <2>5. CASE Unnamed(ss, type)
    <3>1. PICK u \in DOMAIN ss : ss[u].type = type /\ ss[u].name = Undefined
      BY <2>5 DEF Unnamed
    <3>2. u \in B /\ u \notin X
      BY <1>3, <1>5, <1>9, <1>11, <3>1 DEF IsDefaultType
    <3>3. \A i \in B : i \notin X => i = u
      BY <1>5, <1>7, <3>1, <3>2
    <3>4. B = Q \cup {u} /\ u \notin Q
      BY <3>2, <3>3
    <3>5. Cardinality(B) = Cardinality(Q) + 1
      <4> HIDE DEF B, Q
      <4> QED BY <1>1, <3>4, FS_AddElement
    <3> HIDE DEF A, B, P, Q
    <3>6. Cardinality(A) = Cardinality(B) + 0
      BY <1>2, <2>4, <3>5
    <3> QED BY <2>5, <3>6 DEF A, B, t
  <2>6. CASE ~Unnamed(ss, type)
    <3>1. \A i \in B : i \in X
      BY <1>5, <1>8, <2>6 DEF Unnamed, Asks
    <3>2. B = Q
      BY <3>1
    <3> HIDE DEF A, B, P, Q
    <3>3. Cardinality(A) = Cardinality(B) + 1
      BY <2>4, <3>2
    <3> QED BY <1>3, <1>11, <2>6, <3>3 DEF A, B, t
  <2> QED BY <2>5, <2>6
<1> QED BY <1>10, <1>11

(* Each spec of the user's is in the merged list, with its own mask: as an *)
(* extra, or as the default of its type that it was spread over.           *)
Answers(s, r) == r.type = s.type /\ SpecName(r) = SpecName(s) /\ r.mask = s.mask

LEMMA MergedHasAll ==
  ASSUME NEW m \in Masks, DefaultsAllowed(m), NEW ss \in Seq(SpecInput),
         NamesAreUnique(ss), NEW i \in DOMAIN ss
  PROVE  \E j \in DOMAIN Merged(ss, m) : Answers(ss[i], Merged(ss, m)[j])
<1> DEFINE X == ExtraPositions(ss)
           c == Cardinality(X)
           t == Merged(ss, m)
<1>1. t \in Seq(Decided) /\ Len(t) = c + 2 /\ c \in Nat
  BY MergedFacts
<1>2. DOMAIN t = 1..(c + 2)
  <2> HIDE DEF t, c
  <2> QED BY <1>1
<1>3. CASE i \in X
  <2>1. X \in SUBSET (1..Len(ss)) /\ Len(ss) \in Nat
    BY DEF ExtraPositions
  <2>2. PICK k \in 1..c : ExtraAt(ss, k) = i
    BY <1>3, <2>1, EnumerationFacts DEF ExtraAt
  <2>3. t[k + 2] = [type |-> ss[i].type, name |-> ss[i].name, mask |-> ss[i].mask]
    BY <2>2, MergedFacts
  <2> HIDE DEF t, c
  <2>4. k + 2 \in DOMAIN t
    BY <1>1, <1>2, <2>2
  <2>5. Answers(ss[i], t[k + 2])
    BY <2>3 DEF Answers, SpecName
  <2> QED BY <2>4, <2>5 DEF t
<1>4. CASE i \notin X
  <2>1. Overrides(ss[i])
    BY <1>4 DEF ExtraPositions
  <2>2. DOMAIN DefaultTypes = 1..2
    BY TypesAssumption, DefaultsAssumption
  <2>3. PICK k \in 1..2 : DefaultTypes[k] = ss[i].type
    BY <2>1, <2>2 DEF Overrides, IsDefaultType
  <2> DEFINE d == DefaultSpecs(m)[k]
  <2>4. /\ d \in Decided /\ d.type = ss[i].type /\ d.name = Undefined
        /\ t[k] = MergedDefault(d, ss)
    BY <2>3, DefaultFacts, MergedFacts
  <2> HIDE DEF d, t, c
  <2>5. /\ t[k].type = d.type /\ t[k].name = d.name
        /\ \E l \in DOMAIN ss : /\ Overrides(ss[l]) /\ ss[l].type = d.type
                                /\ t[k].mask = ss[l].mask
    BY <2>1, <2>4, MergedDefaultFacts
  <2>6. PICK l \in DOMAIN ss : /\ Overrides(ss[l]) /\ ss[l].type = d.type
                               /\ t[k].mask = ss[l].mask
    BY <2>5
  <2>7. l = i
    BY <2>1, <2>4, <2>6 DEF NamesAreUnique, Overrides
  <2>8. Answers(ss[i], t[k])
    BY <2>1, <2>4, <2>5, <2>6, <2>7 DEF Answers, SpecName, Overrides
  <2>9. k \in DOMAIN t
    BY <1>1, <1>2
  <2> QED BY <2>8, <2>9 DEF t
<1> QED BY <1>3, <1>4

(* The list decided on, seen from the arguments.                           *)
LEMMA NormalizedIsAsGiven ==
  ASSUME Parsed, normalized # Undefined
  PROVE  /\ NamesAreUnique(normalized)
         /\ DOMAIN normalized = DOMAIN input.specs
         /\ \A i \in DOMAIN input.specs :
              /\ normalized[i].type = input.specs[i].type
              /\ normalized[i].name = input.specs[i].name
              /\ ~UsesExplicit => normalized[i].mask = ResolvedMask(input.specs[i])
<1>1. input.specs \in Seq(SpecInput) /\ InputsAgree(input.specs)
  BY ParsedFacts
<1>2. /\ normalized = Normalized(input.specs)
      /\ UsesExplicit <=> IsExplicit(input.specs)
  BY ParsedFacts DEF Parsed
<1>3. /\ DOMAIN normalized = DOMAIN input.specs
      /\ \A i \in DOMAIN input.specs :
           /\ normalized[i].type = input.specs[i].type
           /\ normalized[i].name = input.specs[i].name
           /\ ~UsesExplicit => normalized[i].mask = ResolvedMask(input.specs[i])
  BY <1>1, <1>2, NormalizedFacts
<1>4. NamesAreUnique(normalized)
  BY <1>1, <1>3 DEF InputsAgree, NamesAreUnique
<1> QED BY <1>3, <1>4

LEMMA DecidedKeepsCount ==
  ASSUME Parsed, Mergeable, normalized # Undefined, NEW type \in Types, NEW name
  PROVE  Cardinality(Asks(DecidedSpecs, type, name)) =
           Cardinality(Asks(input.specs, type, name))
             + IF name = type /\ AddedByMerge(type) THEN 1 ELSE 0
<1>1. Asks(normalized, type, name) = Asks(input.specs, type, name)
  BY NormalizedIsAsGiven DEF Asks, SpecName
<1>2. CASE input.strategy = "AutoMerge"
  <2>1. DecidedSpecs = Merged(normalized, AzMask)
    BY <1>2 DEF DecidedSpecs, UserSpecs
  <2>2. AzMask \in Masks /\ DefaultsAllowed(AzMask)
    BY <1>2 DEF Mergeable
  <2>3. normalized \in Seq(SpecInput) /\ NamesAreUnique(normalized)
    BY ParsedFacts, NormalizedIsAsGiven
  <2>4. Cardinality(Asks(DecidedSpecs, type, name)) =
           Cardinality(Asks(normalized, type, name))
             + IF name = type /\ (\E k \in DOMAIN DefaultTypes : DefaultTypes[k] = type)
                  /\ ~Unnamed(normalized, type)
               THEN 1 ELSE 0
    BY <2>1, <2>2, <2>3, MergeKeepsCount
  <2>5. AddedByMerge(type) <=>
          /\ \E k \in DOMAIN DefaultTypes : DefaultTypes[k] = type
          /\ ~Unnamed(normalized, type)
    <3>1. Unnamed(normalized, type) <=>
            ~\A i \in DOMAIN input.specs :
               input.specs[i].type = type => input.specs[i].name # Undefined
      BY NormalizedIsAsGiven DEF Unnamed
    <3> QED BY <1>2, <3>1 DEF AddedByMerge
  <2> QED BY <1>1, <2>4, <2>5
<1>3. CASE input.strategy # "AutoMerge"
  <2>1. DecidedSpecs = normalized
    BY <1>3 DEF DecidedSpecs
  <2>2. ~AddedByMerge(type)
    BY <1>3 DEF AddedByMerge
  <2>3. Cardinality(Asks(normalized, type, name)) \in Nat
    <3>1. normalized \in Seq(SpecInput)
      BY ParsedFacts
    <3>2. \A i \in Asks(normalized, type, name) : i \in 1..Len(normalized)
      BY <3>1 DEF Asks
    <3>3. Len(normalized) \in Nat /\ Asks(normalized, type, name) \in SUBSET (1..Len(normalized))
      BY <3>1, <3>2
    <3> QED BY <3>3, PositionsAreFinite
  <2> QED BY <1>1, <2>1, <2>2, <2>3
<1> QED BY <1>2, <1>3

LEMMA DecidedHasAll ==
  ASSUME Parsed, Mergeable, normalized # Undefined, NEW i \in DOMAIN input.specs
  PROVE  \E j \in DOMAIN DecidedSpecs :
           /\ DecidedSpecs[j].type = input.specs[i].type
           /\ SpecName(DecidedSpecs[j]) = SpecName(input.specs[i])
           /\ ~UsesExplicit => DecidedSpecs[j].mask = ResolvedMask(input.specs[i])
           /\ UsesExplicit => DecidedSpecs[j] = input.specs[i]
<1>1. /\ i \in DOMAIN normalized
      /\ normalized[i].type = input.specs[i].type
      /\ SpecName(normalized[i]) = SpecName(input.specs[i])
      /\ ~UsesExplicit => normalized[i].mask = ResolvedMask(input.specs[i])
  BY NormalizedIsAsGiven DEF SpecName
<1>2. CASE input.strategy = "AutoMerge"
  <2>1. DecidedSpecs = Merged(normalized, AzMask)
    BY <1>2 DEF DecidedSpecs, UserSpecs
  <2>2. AzMask \in Masks /\ DefaultsAllowed(AzMask) /\ ~UsesExplicit
    BY <1>2, ParsedFacts DEF Mergeable
  <2>3. normalized \in Seq(SpecInput) /\ NamesAreUnique(normalized)
    BY ParsedFacts, NormalizedIsAsGiven
  <2>4. PICK j \in DOMAIN DecidedSpecs : Answers(normalized[i], DecidedSpecs[j])
    BY <1>1, <2>1, <2>2, <2>3, MergedHasAll
  <2> QED BY <1>1, <2>2, <2>4 DEF Answers
<1>3. CASE input.strategy # "AutoMerge"
  <2>1. DecidedSpecs = normalized /\ UsesExplicit => normalized = input.specs
    BY <1>3, ParsedFacts DEF DecidedSpecs
  <2>2. DecidedSpecs = normalized
    BY <1>3 DEF DecidedSpecs
  <2>3. UsesExplicit => normalized = input.specs
    BY ParsedFacts
  <2> QED BY <1>1, <2>2, <2>3
<1> QED BY <1>2, <1>3

-----------------------------------------------------------------------------
LEMMA TypesAreKept ==
  ASSUME LInv
  PROVE  LayoutTypeOK
<1>1. input \in Inputs /\ stage \in Stages /\ phase \in Phases \cup {"idle"}
  BY DEF LInv, Parsed
<1>2. normalized \in Seq(SpecInput) \cup {Undefined}
  BY ParsedFacts DEF LInv
<1>3. layout \in Seq([az : 1..input.azCount, spec : Nat \ {0}, type : Types,
                      name : Names, block : Block])
  <2> DEFINE R == [az : 1..input.azCount, spec : Nat \ {0}, type : Types,
                   name : Names, block : Block]
  <2>1. CASE layout = <<>>
    BY <2>1
  <2>2. CASE LaidOut
    <3>1. Parsed /\ Mergeable /\ Len(DecidedSpecs) # 0
      BY <2>2 DEF LInv, LaidOut
    <3>2. DOMAIN layout = 1..Len(layout) /\ Len(layout) \in Nat
          /\ Len(layout) = input.azCount * Len(DecidedSpecs)
          /\ layout = [p \in 1..Len(layout) |-> layout[p]]
      BY <2>2 DEF LaidOut
    <3>3. ASSUME NEW p \in 1..Len(layout)
          PROVE  layout[p] \in R
      <4> DEFINE ss == DecidedSpecs
                 i == SpecAt(ss, p)
      <4>1. SubnetOf(ss, p)
        BY <2>2, <3>2, <3>3 DEF LaidOut
      <4>2. ZoneAt(ss, p) \in 1..input.azCount /\ i \in DOMAIN ss
        BY <3>1, <3>2, <3>3, PlaceOf
      <4>3. /\ i \in Nat \ {0}
            /\ ss[i].type \in Types /\ ss[i].name \in Names \cup {Undefined}
        <5>1. DOMAIN ss = 1..Len(ss) /\ Len(ss) \in Nat
          BY <3>1, DecidedFacts
        <5>2. ss[i].type \in Types /\ ss[i].name \in Names \cup {Undefined}
          BY <3>1, <4>2, DecidedFacts
        <5> HIDE DEF ss, i
        <5> QED BY <4>2, <5>1, <5>2
      <4>4. SpecName(ss[i]) \in Names
        BY <4>3, TypesAssumption DEF SpecName
      <4>5. /\ layout[p] = [az |-> ZoneAt(ss, p), spec |-> i, type |-> ss[i].type,
                            name |-> SpecName(ss[i]), block |-> layout[p].block]
            /\ layout[p].block \in Block
        BY <4>1 DEF SubnetOf
      <4> HIDE DEF ss, i
      <4>6. [az |-> ZoneAt(ss, p), spec |-> i, type |-> ss[i].type,
             name |-> SpecName(ss[i]), block |-> layout[p].block] \in R
        BY <4>2, <4>3, <4>4, <4>5
      <4> HIDE DEF R
      <4> QED BY <4>5, <4>6
    <3> HIDE DEF R
    <3>4. layout \in [1..Len(layout) -> R]
      BY <3>2, <3>3
    <3>5. layout \in Seq(R)
      BY <3>2, <3>4, FunctionIsSeq
    <3> QED BY <3>5 DEF R
  <2> QED BY <2>1, <2>2 DEF LInv, Stages
<1>4. request.specs \in Seq(SubnetSpecInput) \cup {Undefined}
  <2>1. CASE phase = "idle"
    BY <2>1 DEF LInv, Untouched, CallOf
  <2>2. CASE phase # "idle"
    BY <2>2 DEF LInv, Called, RInv, IInv, TypeOK, IsCall, Request
  <2> QED BY <2>1, <2>2
<1> QED BY <1>1, <1>2, <1>3, <1>4 DEF LayoutTypeOK

(* In each zone, one subnet per spec.                                      *)
LEMMA SpecsAreKept ==
  ASSUME LInv
  PROVE  SpecsKept
<1> SUFFICES ASSUME stage \in {"decided", "accepted"}, input.specs # Undefined,
                    NEW zone \in 1..input.azCount, NEW type \in Types, NEW name \in Names
             PROVE  Cardinality(MatchesIn(zone, type, name)) =
                      Cardinality(Asks(input.specs, type, name))
                        + IF name = type /\ AddedByMerge(type) THEN 1 ELSE 0
  BY DEF SpecsKept, Asks
<1>1. Parsed /\ LaidOut /\ Mergeable /\ normalized # Undefined
  BY DEF LInv, Parsed, LaidOut
<1> QED BY <1>1, ZoneHasAll, DecidedKeepsCount

(* Each spec has its subnet of the size it asked for in each zone.         *)
LEMMA SizesAreHonoured ==
  ASSUME LInv
  PROVE  SizesHonoured
<1> SUFFICES ASSUME stage \in {"decided", "accepted"}, input.specs # Undefined,
                    NEW zone \in 1..input.azCount, NEW i \in DOMAIN input.specs
             PROVE  LET s == input.specs[i] IN
                    \E p \in MatchesIn(zone, s.type, SpecName(s)) :
                      /\ s.mask # Undefined => layout[p].block.mask = s.mask
                      /\ s.mask = Undefined /\ s.size # Undefined
                           => Size(layout[p].block) = s.size
  BY DEF SizesHonoured
<1> DEFINE s == input.specs[i]
           ss == DecidedSpecs
           n == Len(ss)
<1>1. Parsed /\ LaidOut /\ Mergeable /\ normalized # Undefined /\ ~UsesDefaults /\ n # 0
  BY DEF LInv, Parsed, LaidOut, UsesDefaults
<1>2. s \in SpecInput /\ InputsAgree(input.specs) /\ SizeIsValid(s)
      /\ (UsesExplicit => ExplicitAgrees(s))
  BY <1>1, ParsedFacts DEF InputsAgree
<1>3. PICK j \in DOMAIN ss :
        /\ ss[j].type = s.type /\ SpecName(ss[j]) = SpecName(s)
        /\ ~UsesExplicit => ss[j].mask = ResolvedMask(s)
        /\ UsesExplicit => ss[j] = s
  BY <1>1, DecidedHasAll
<1> DEFINE p == n * (zone - 1) + j
<1>4. p \in 1..(input.azCount * n) /\ ZoneAt(ss, p) = zone /\ SpecAt(ss, p) = j
  BY <1>1, PositionFacts
<1> HIDE DEF s, ss, n, p
<1>5. /\ p \in DOMAIN layout /\ layout[p].az = zone
      /\ layout[p].type = ss[j].type /\ layout[p].name = SpecName(ss[j])
      /\ layout[p].block \in Block
      /\ UsesExplicit => layout[p].block = ss[j].blocks[zone]
      /\ ~UsesExplicit /\ ss[j].mask # Undefined => layout[p].block.mask = ss[j].mask
  <2>1. p \in DOMAIN layout
    BY <1>1, <1>4 DEF LaidOut, n, ss
  <2>2. SubnetOf(ss, p)
    BY <1>1, <2>1 DEF LaidOut, ss
  <2> QED BY <1>1, <1>4, <2>1, <2>2 DEF SubnetOf
<1>6. p \in MatchesIn(zone, s.type, SpecName(s))
  BY <1>3, <1>5 DEF MatchesIn
<1>7. CASE UsesExplicit
  <2>1. ExplicitAgrees(s) /\ layout[p].block = s.blocks[zone]
    BY <1>2, <1>3, <1>5, <1>7
  <2>2. zone \in DOMAIN s.blocks
    BY <1>2, <2>1 DEF ExplicitAgrees, SpecInput
  <2>3. /\ s.mask \in {Undefined, layout[p].block.mask}
        /\ s.size \in {Undefined, Size(layout[p].block)}
    BY <2>1, <2>2 DEF ExplicitAgrees
  <2> QED BY <1>6, <2>3 DEF s
<1>8. CASE ~UsesExplicit
  <2>1. ss[j].mask = ResolvedMask(s) /\ (ss[j].mask # Undefined => layout[p].block.mask = ss[j].mask)
    BY <1>3, <1>5, <1>8
  <2>2. s.mask # Undefined => layout[p].block.mask = s.mask
    BY <1>2, <2>1, ResolvedMaskFacts
  <2>3. s.mask = Undefined /\ s.size # Undefined => Size(layout[p].block) = s.size
    BY <1>2, <2>1, ResolvedMaskFacts DEF Size
  <2> QED BY <1>6, <2>2, <2>3 DEF s
<1> QED BY <1>7, <1>8

(* What a user writes is what each zone gets: a subnet for every spec, of  *)
(* the size it asks for, and one for each default type that AutoMerge adds.*)
THEOREM SpecsAreHonoured == LayoutSpec => []SpecsHonoured
<1>1. LInv => SpecsHonoured
  BY TypesAreKept, SpecsAreKept, SizesAreHonoured DEF SpecsHonoured
<1> QED BY <1>1, LayoutInvariance, PTL
=============================================================================
