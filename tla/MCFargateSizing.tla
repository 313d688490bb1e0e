-------------------------- MODULE MCFargateSizing --------------------------
(* Instances of FargateSizing for TLC: the real table, with demands on, at *)
(* and beyond its steps.                                                   *)
EXTENDS FargateSizing

Cpus == {NotGiven, 0, 256, 300, 1024, 4096, 8192, 16384, 32768, 32769}
MBs == {NotGiven, 0, 512, 600, 2048, 8192, 8193, 40000, 61440, 122881, 249856, 249857}

Lone == [cpu : Cpus, memory : MBs, memoryReservation : {NotGiven, 0, 1024, 30720}]
Pair == [cpu : {NotGiven, 512, 16384}, memory : {NotGiven, 1024, 131072},
         memoryReservation : {NotGiven, 512}]

MCTaskArgs ==
  [containers : {<<>>} \cup {<<c>> : c \in Lone} \cup {<<c, d>> : c, d \in Pair},
   cpu : {NotGiven, 4096}, memory : {NotGiven, 1024, 16384}]
=============================================================================
