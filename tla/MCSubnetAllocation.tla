------------------------ MODULE MCSubnetAllocation -------------------------
(* Instances of SubnetAllocation for TLC: a 64-address space.              *)
EXTENDS SubnetAllocation

MCBlockSize == [m \in 0..Width |-> 2^(Width - m)]

MCDefaultTypes == <<"private", "public">>

Vpcs == {[base |-> 0, mask |-> 1], [base |-> 16, mask |-> 2],
         [base |-> 8, mask |-> 3], [base |-> 32, mask |-> 5]}

(* All the specs of a list share one name, or none does.                   *)
Naming == {<<"public", "public", "public">>, <<"private", "public", "app">>}

MaskLists == UNION {[1..n -> (3..Width) \cup {Undefined}] : n \in 0..3}

SpecLists ==
  {[i \in DOMAIN m |-> [name |-> n[i], mask |-> m[i]]] :
     n \in Naming, m \in MaskLists}

HasRoom(r) ==
  AzBitmask(r) \in Masks =>
    r.vpc.base + (r.azCount + 1) * BlockSize[AzBitmask(r)] <= Space

MCRequests ==
  {r \in [vpc : Vpcs, azCount : 0..3, azCidrMask : {Undefined, 2, 3, 4},
          specs : SpecLists \cup {Undefined}] : HasRoom(r)}
=============================================================================
