--------------------------- MODULE FargateSizing ---------------------------
(***************************************************************************)
(* The size of a Fargate task: calculateFargateMemoryAndCPU adds up what   *)
(* the containers ask for and picks a configuration from the table of      *)
(* those that AWS supports; buildTaskDefinitionArgs uses it for whichever  *)
(* of cpu and memory the user has not given.                               *)
(*                                                                         *)
(* A configuration counts cpu in quarters of a vCPU (256 CPU units) and    *)
(* memory in halves of a GB (512 MB), the smallest steps of the table.     *)
(***************************************************************************)
EXTENDS Integers, Sequences

CONSTANTS
  TaskArgs,   \* the calls considered
  NotGiven    \* undefined

OrNotGiven(S) == S \cup {NotGiven}

ContainerInput ==
  [cpu : OrNotGiven(Nat), memory : OrNotGiven(Nat),
   memoryReservation : OrNotGiven(Nat)]

(* cpu and memory are the task's own, in CPU units and MB.                 *)
SizingRequest ==
  [containers : Seq(ContainerInput), cpu : OrNotGiven(Nat), memory : OrNotGiven(Nat)]

ASSUME SizingRequestAssumption == \A r \in TaskArgs : r \in SizingRequest

ASSUME NotGivenIsNoNumber == NotGiven \notin Nat

CpuUnits(config) == 256 * config.cpu
MemoryMB(config) == 512 * config.memory

VARIABLES
  taskArgs,
  phase,      \* "adding", "sized", "registered" or "refused"
  added,      \* how many containers have been added up
  cpuUnits,   \* minTaskCPUUnits
  memoryMB,   \* minTaskMemoryMB
  config,     \* the configuration found
  taskSize    \* cpu and memory of the task definition

sizingVars == <<taskArgs, phase, added, cpuUnits, memoryMB, config, taskSize>>

-----------------------------------------------------------------------------
(* The table.                                                              *)
Configs(cpu, memories) == [cpu : {cpu}, memory : memories]

(* range(low, high), in whole GB.                                          *)
GBs(low, high) == {2 * gb : gb \in low..high}

AllConfigs ==
  Configs(1, {1, 2, 4}) \cup Configs(2, GBs(1, 4)) \cup Configs(4, GBs(2, 8))
    \cup Configs(8, GBs(4, 16)) \cup Configs(16, GBs(8, 30))
    \cup Configs(32, GBs(16, 60)) \cup Configs(64, GBs(32, 120))
    \cup Configs(128, {120, 240, 488})

MaxCpu == 128
MaxMemory == 488

(* fargateCost, in units of which 0.04048 and 0.004445 are multiples.      *)
Cost(c) == 20240 * c.cpu + 4445 * c.memory

(* The order of the table once it has been sorted in place by cost, by     *)
(* vCPUs and by memory: each sort is stable.                               *)
Before(c, d) ==
  \/ c.memory < d.memory
  \/ c.memory = d.memory /\ c.cpu < d.cpu
  \/ c.memory = d.memory /\ c.cpu = d.cpu /\ Cost(c) < Cost(d)

FitsStrictly(c) == CpuUnits(c) > cpuUnits /\ MemoryMB(c) > memoryMB
Fits(c) == CpuUnits(c) >= cpuUnits /\ MemoryMB(c) >= memoryMB

(* find: the first configuration that fits.                                *)
IsFirst(c) ==
  /\ c \in AllConfigs
  /\ Fits(c)
  /\ \A d \in AllConfigs : Fits(d) => ~Before(d, c)

ExceedsOrEquals == cpuUnits >= 256 * MaxCpu \/ memoryMB >= 512 * MaxMemory
ExceedsMaximum == cpuUnits > 256 * MaxCpu \/ memoryMB > 512 * MaxMemory

(* undefined and zero count as nothing asked for.                          *)
Given(x) == x # NotGiven /\ x # 0
Amount(x) == IF Given(x) THEN x ELSE 0

MemoryOf(c) ==
  IF Given(c.memoryReservation) THEN c.memoryReservation ELSE Amount(c.memory)

-----------------------------------------------------------------------------
SizingInit ==
  /\ taskArgs \in TaskArgs
  /\ phase = "adding"
  /\ added = 0
  /\ cpuUnits = 0
  /\ memoryMB = 0
  /\ config = NotGiven
  /\ taskSize = NotGiven

(* What the sum is once x has been added.                                  *)
Plus(sum, x) == sum + x

AddContainer ==
  /\ phase = "adding"
  /\ added < Len(taskArgs.containers)
  /\ added' = added + 1
  /\ LET c == taskArgs.containers[added']
     IN  /\ memoryMB' = Plus(memoryMB, MemoryOf(c))
         /\ cpuUnits' = Plus(cpuUnits, Amount(c.cpu))
  /\ UNCHANGED <<taskArgs, phase, config, taskSize>>

(* Both errors: beyond the maxima, and no configuration found.             *)
RefuseTask ==
  /\ phase = "adding"
  /\ added = Len(taskArgs.containers)
  /\ ExceedsMaximum \/ ~\E c \in AllConfigs : Fits(c)
  /\ phase' = "refused"
  /\ UNCHANGED <<taskArgs, added, cpuUnits, memoryMB, config, taskSize>>

Size ==
  /\ phase = "adding"
  /\ added = Len(taskArgs.containers)
  /\ ~ExceedsMaximum
  /\ \E c \in AllConfigs : IsFirst(c) /\ config' = c
  /\ phase' = "sized"
  /\ UNCHANGED <<taskArgs, added, cpuUnits, memoryMB, taskSize>>

OrComputed(given, computed) == IF given = NotGiven THEN computed ELSE given

(* buildTaskDefinitionArgs.                                                *)
Register ==
  /\ phase = "sized"
  /\ taskSize' = [cpu |-> OrComputed(taskArgs.cpu, CpuUnits(config)),
                  memory |-> OrComputed(taskArgs.memory, MemoryMB(config))]
  /\ phase' = "registered"
  /\ UNCHANGED <<taskArgs, added, cpuUnits, memoryMB, config>>

SizingNext == AddContainer \/ RefuseTask \/ Size \/ Register

SizingSpec == SizingInit /\ [][SizingNext]_sizingVars
-----------------------------------------------------------------------------
(* Properties.                                                             *)

(* Every variable has its type.                                            *)
SizingTypeOK ==
  /\ taskArgs \in TaskArgs
  /\ phase \in {"adding", "sized", "registered", "refused"}
  /\ added \in 0..Len(taskArgs.containers)
  /\ cpuUnits \in Nat
  /\ memoryMB \in Nat
  /\ config \in OrNotGiven(AllConfigs)
  /\ taskSize \in OrNotGiven([cpu : Nat, memory : Nat])

Covers(c) == CpuUnits(c) >= cpuUnits /\ MemoryMB(c) >= memoryMB

(* "we'll return the cheapest fargate config that supplies at least that   *)
(* much memory/vcpu", although the table that was sorted by price is no    *)
(* longer in that order when it is searched.                               *)
CheapestThatCovers ==
  config # NotGiven =>
    /\ Covers(config)
    /\ \A c \in AllConfigs : Covers(c) => Cost(config) <= Cost(c)

(* A task is refused only when some demand of its containers is more than  *)
(* every configuration has: the maxima of the two columns belong to one    *)
(* configuration, so the second error is never thrown.                     *)
RefusedOnlyBeyondMaximum ==
  phase = "refused" =>
    \/ \A c \in AllConfigs : CpuUnits(c) < cpuUnits
    \/ \A c \in AllConfigs : MemoryMB(c) < memoryMB

(* A container that asks for more never makes the task cheaper: what was   *)
(* found has room for each container on its own.                           *)
EveryContainerFits ==
  config # NotGiven =>
    \A k \in DOMAIN taskArgs.containers :
      LET c == taskArgs.containers[k]
      IN  /\ Amount(c.cpu) <= CpuUnits(config)
          /\ MemoryOf(c) <= MemoryMB(config)
=============================================================================
