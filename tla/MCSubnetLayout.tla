--------------------------- MODULE MCSubnetLayout ---------------------------
(* Instances of SubnetLayout for TLC: a 64-address space.                  *)
EXTENDS SubnetLayout

MCBlockSize == [m \in 0..Width |-> 2^(Width - m)]

MCDefaultTypes == <<"private", "public">>

Vpc1 == [base |-> 0, mask |-> 1]
Vpc2 == [base |-> 16, mask |-> 2]

Lists(s, n) == UNION {[1..k -> s] : k \in 0..n}

(* Sized by mask, by size, by both (in agreement or not) or not at all.    *)
Sizings ==
  {<<3, Undefined>>, <<4, Undefined>>, <<5, Undefined>>, <<Undefined, Undefined>>,
   <<Undefined, 4>>, <<Undefined, 5>>, <<4, 4>>, <<4, 8>>, <<5, 4>>}

MaskSizings == {z \in Sizings : z[2] = Undefined}

Sized(types, names, sizings) ==
  {[type |-> t, name |-> n, mask |-> z[1], size |-> z[2], blocks |-> Undefined] :
     t \in types, n \in names, z \in sizings}

(* Pairs of specs of every kind, and triples of different sizes.           *)
SizedLists ==
  Lists(Sized({"private", "public"}, {Undefined, "private", "app"}, Sizings), 1)
    \cup
  {<<s, t>> : s \in Sized({"private", "public"}, {Undefined, "app"}, Sizings),
              t \in Sized({"private", "public"}, {Undefined, "private"}, MaskSizings)}
    \cup
  {l \in [1..3 -> Sized({"public", "private", "unused"}, {Undefined},
                        {<<m, Undefined>> : m \in {3, 4, Undefined}})] :
     Cardinality({l[i].type : i \in 1..3}) = 3}

ExplicitBlocks ==
  {<<>>, <<[base |-> 16, mask |-> 3]>>, <<[base |-> 24, mask |-> 3]>>,
   <<[base |-> 24, mask |-> 4]>>, <<[base |-> 28, mask |-> 4]>>,
   <<[base |-> 16, mask |-> 3], [base |-> 24, mask |-> 4]>>,
   <<[base |-> 20, mask |-> 4], [base |-> 28, mask |-> 4]>>,
   <<[base |-> 16, mask |-> 4], [base |-> 24, mask |-> 4]>>}

ExplicitLists ==
  Lists([type : {"private", "public"}, name : {Undefined},
         mask : {Undefined, 4}, size : {Undefined, 8},
         blocks : ExplicitBlocks \cup {Undefined}], 2)

Configurations(specLists, azCounts, masks) ==
  {c \in [strategy : Strategies, vpc : {Vpc1, Vpc2}, prompt : BOOLEAN,
          azCount : azCounts, azCidrMask : masks,
          nat : {"None", "OnePerAz"}, specs : specLists] :
     /\ c.strategy = "Exact" => c.specs # Undefined
     /\ c.prompt \/ c.strategy = "Exact"}

(* Of the allocator: up to three specs with every mask, under one name or  *)
(* under three, in VPCs with one to three zones of their own sizes.        *)
MaskLists ==
  {[i \in DOMAIN m |-> [type |-> <<"public", "private", "isolated">>[i], name |-> n,
                        mask |-> m[i], size |-> Undefined, blocks |-> Undefined]] :
     n \in {Undefined, "app"},
     m \in UNION {[1..k -> (3..Width) \cup {Undefined}] : k \in 0..3}}

Vpcs == {Vpc1, Vpc2, [base |-> 8, mask |-> 3], [base |-> 32, mask |-> 5]}

AllocatorInputs ==
  {c \in [strategy : {"Auto"}, vpc : Vpcs, prompt : {TRUE}, azCount : 1..3,
          azCidrMask : {Undefined, 2, 3, 4}, nat : {"None"},
          specs : MaskLists \cup {Undefined}] :
     IsCall(CallOf(c, Undefined))}

MCInputs ==
  AllocatorInputs \cup
  {c \in Configurations(SizedLists \cup ExplicitLists \cup {Undefined}, {1, 2},
                        {Undefined}) :
     /\ c.specs \in ExplicitLists => c.vpc = Vpc2 /\ c.azCount <= 2
     /\ c.nat = "OnePerAz" => c.specs = Undefined \/ Len(c.specs) <= 1
                               \/ \A i \in DOMAIN c.specs : c.specs[i].name = Undefined}
=============================================================================
