------------------------- MODULE MCLayoutConversion -------------------------
(* Instances of LayoutConversion for TLC: a 256-address space, with room   *)
(* after the VPC for zones that spill.                                     *)
EXTENDS LayoutConversion

MCBlockSize == [m \in 0..Width |-> 2^(Width - m)]

MCDefaultMasks == [t \in {"private", "public", "isolated"} |->
                     CASE t = "private" -> 4 [] t = "public" -> 5 [] OTHER -> 6]

(* Specs of a kind have names of their own: others are refused before.     *)
MCNames == <<"a", "b", "c", "d", "e", "f">>

SpecLists(n, types, masks) ==
  {[k \in DOMAIN s |-> [type |-> s[k].type, mask |-> s[k].mask, name |-> MCNames[k]]] :
     s \in UNION {[1..k -> [type : types, mask : masks]] : k \in 0..n}}

Calls(base, mask, azCounts, lists) ==
  [vpc : {[base |-> base, mask |-> mask]}, azCount : azCounts, specs : lists]

(* Of the Legacy allocator: two specs of any kind; three of the kinds that *)
(* are placed; four of one type, whose formula counts from the same base.  *)
LegacyRequests ==
  Calls(64, 3, 1..3, SpecLists(2, Types, (4..8) \cup {Undefined}) \cup {Undefined})
    \cup Calls(0, 3, {2}, SpecLists(1, {"public"}, {4}) \cup {Undefined})
    \cup Calls(96, 7, 1..3, SpecLists(2, Types, {7, 8, Undefined}) \cup {Undefined})
    \cup Calls(64, 4, {2}, SpecLists(3, PlacedTypes, {5, 6, 7, Undefined})
                             \cup SpecLists(4, {"isolated"}, 5..8))

(* Of the conversion: one spec of each type, with every mask; two specs in *)
(* VPCs that are too small; two specs of one type before a third, which    *)
(* leave several gaps.                                                     *)
ConversionRequests ==
  Calls(64, 2, 1..3,
        {s \in SpecLists(3, PlacedTypes, (3..8) \cup {Undefined}) :
           \A j, k \in DOMAIN s : s[j].type = s[k].type => j = k} \cup {Undefined})
    \cup Calls(96, 4, {2}, SpecLists(2, PlacedTypes, 5..8))
    \cup Calls(64, 2, {2}, SpecLists(3, {"private", "isolated"}, 5..8))

(* Small specs before a large one of their type, which the formula puts as *)
(* many times its own size further on.                                     *)
FarOff(n) == [k \in 1..n |-> [type |-> "private", mask |-> IF k < n THEN 7 ELSE 5,
                             name |-> MCNames[k]]]

DistantRequests == Calls(64, 2, {1}, {FarOff(n) : n \in 2..6})

MCRequests == LegacyRequests \cup ConversionRequests \cup DistantRequests
=============================================================================
