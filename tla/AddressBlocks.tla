--------------------------- MODULE AddressBlocks ---------------------------
(***************************************************************************)
(* CIDR blocks, as the `netmask` library computes them.  The library is a  *)
(* dependency: what is modelled here is how the subnet distributors use    *)
(* it.  A block is a base address and a mask; addresses are the integers   *)
(* 0 .. 2^Width - 1 (Width is 32 in the program, smaller under TLC).       *)
(*                                                                         *)
(* BlockSize[m] is the number of addresses of a /m block, 2^(Width - m).   *)
(* It is a parameter, with the facts about powers of two that the proofs   *)
(* need as assumptions, because tlapm's backends know nothing about ^.     *)
(***************************************************************************)
EXTENDS Integers

CONSTANTS Width, BlockSize

ASSUME WidthAssumption == Width \in Nat /\ Width >= 2

ASSUME BlockSizeAssumption ==
  /\ BlockSize \in [0..Width -> Nat \ {0}]
  /\ BlockSize[Width] = 1
  /\ \A m \in 0..(Width - 1) : BlockSize[m] = 2 * BlockSize[m + 1]
  /\ \A m, n \in 0..Width : m <= n => BlockSize[m] % BlockSize[n] = 0

(* A mask of 0 is left out: `new Netmask(base, 0)` reads it as "no mask".  *)
Masks == 1..Width
Space == BlockSize[0]
Addresses == 0..(Space - 1)
Block == [base : Addresses, mask : Masks]

(* new Netmask(addr, mask): the /mask block that contains addr.            *)
Netmask(addr, mask) ==
  [base |-> addr - (addr % BlockSize[mask]), mask |-> mask]

Size(b) == BlockSize[b.mask]

(* The first address after the block (not wrapped).                        *)
End(b) == b.base + Size(b)

(* Netmask.last: the last host, which leaves out the broadcast address of  *)
(* every block that has one (masks up to /30).                             *)
LastHost(b) == End(b) - (IF b.mask <= Width - 2 THEN 2 ELSE 1)

(* Netmask.next(): the block of the same size that follows; addresses wrap *)
(* at 2^Width.                                                             *)
NextBlock(b) == Netmask(End(b) % Space, b.mask)

Disjoint(b, c) == End(b) <= c.base \/ End(c) <= b.base

Inside(b, c) == c.base <= b.base /\ End(b) <= End(c)
=============================================================================
