--------------------------- MODULE ServiceProofs ---------------------------
(***************************************************************************)
(* That a service behind a balancer is what was asked for, for every pair  *)
(* of a balancer and a service and every order in which resources and      *)
(* ports become known: the balancer's endpoints agree, the service matches *)
(* its task and its groups, and a refusal leaves nothing that serves.      *)
(*                                                                         *)
(* At the end, the size of a Fargate task: it gets the cheapest            *)
(* configuration that covers its containers, and is refused only when no   *)
(* configuration has as much of something as they want.                    *)
(***************************************************************************)
EXTENDS ServiceBehindBalancer, FargateSizing, FiniteSetTheorems, TLAPS

-----------------------------------------------------------------------------
(* The service.  Helpers come before the task definition, which comes      *)
(* before the service and its security group.                              *)
Helpers == {"LogGroup", "TaskRole", "ExecutionRole"}
TaskSteps == {"logGroup", "taskRole", "executionRole", "taskDefinition"}
ServiceSteps == {"identifier", "capacity", "service", "done"}
BothStrategies ==
  /\ request.capacityProviderStrategies
  /\ request.useClusterDefaultCapacityProviderStrategy

RegisteredSoFar ==
  /\ step \in {"arguments", "containers"} => registered = {}
  /\ step \in TaskSteps \cup {"containers"} => Task # Undefined
  /\ step \in TaskSteps => ExactlyOneOfContainers /\ "TaskDefinition" \notin registered
  /\ "TaskDefinition" \in registered => Task # Undefined /\ ExactlyOneOfContainers
  /\ step \in ServiceSteps =>
       /\ Task # Undefined => "TaskDefinition" \in registered
       /\ Task = Undefined => registered \cap (Helpers \cup {"ExecutionPolicy"}) = {}
  /\ step \in {"service", "done"} => ~BothStrategies
  /\ {"Service", "SecurityGroup"} \cap registered # {} => step = "done"

(* What exists had what it waits for and inputs that could be read.        *)
Closed ==
  /\ "TaskDefinition" \in created => Helpers \cap registered \subseteq created
  /\ "Service" \in created => ServiceNeeds \cap registered \subseteq created /\ HasSubnets

(* What was computed when a resource was created is what would be computed *)
(* now, as the ports it read do not change.                                *)
Computed ==
  /\ definition # Undefined => "TaskDefinition" \in created
  /\ "TaskDefinition" \in created =>
       definition = ContainerDefinitions /\ GroupsRead \subseteq DOMAIN groupPort
  /\ service # Undefined => "Service" \in created
  /\ "Service" \in created => service = Service

SInv == TypeOK /\ RefusalLeavesNoService /\ RegisteredSoFar /\ Closed /\ Computed

-----------------------------------------------------------------------------
LEMMA RequestFacts ==
  ASSUME TypeOK
  PROVE  /\ request.launch \in {"FARGATE", "EC2"}
         /\ {request.networkConfiguration, request.capacityProviderStrategies,
             request.useClusterDefaultCapacityProviderStrategy} \subseteq BOOLEAN
         /\ request.assignPublicIp \in Optional(BOOLEAN)
         /\ Task # Undefined => IsTask(Task)
         /\ DOMAIN request.ports \subseteq TargetGroups
         /\ \A g \in DOMAIN request.ports : request.ports[g] \in Optional(Ports)
BY ServiceRequestAssumption DEF TypeOK, Task

(* The containers of a task whose arguments passed.                        *)
LEMMA ContainerFacts ==
  ASSUME TypeOK, Task # Undefined, ExactlyOneOfContainers
  PROVE  /\ DOMAIN NormalizeContainers \subseteq Names
         /\ \A n \in DOMAIN NormalizeContainers : NormalizeContainers[n] \in Seq(Mapping)
<1>1. IsTask(Task)
  BY RequestFacts
<1>2. CASE Task.containers # Undefined
  BY <1>1, <1>2 DEF NormalizeContainers, IsTask
<1>3. CASE Task.containers = Undefined
  <2>1. /\ Task.container.name \in Optional(Names)
        /\ Task.container.portMappings \in Seq(Mapping)
    BY <1>1, <1>3 DEF IsTask, ExactlyOneOfContainers
  <2>2. ContainerName(Task.container.name) \in Names
    BY <2>1, ContainerAssumption DEF ContainerName, OrElse, Optional
  <2>3. NormalizeContainers =
          [n \in {ContainerName(Task.container.name)} |-> Task.container.portMappings]
    BY <1>3 DEF NormalizeContainers
  <2> QED BY <2>1, <2>2, <2>3
<1> QED BY <1>2, <1>3

LEMMA MappingFacts ==
  ASSUME TypeOK, Task # Undefined, ExactlyOneOfContainers,
         NEW n \in DOMAIN NormalizeContainers, NEW k \in DOMAIN NormalizeContainers[n]
  PROVE  /\ NormalizeContainers[n][k] \in Mapping
         /\ NormalizeContainers[n][k] \in Mappings(n)
         /\ NormalizeContainers[n][k].targetGroup # Undefined =>
              NormalizeContainers[n][k].targetGroup \in GroupsRead
<1>1. NormalizeContainers[n][k] \in Mapping
  BY ContainerFacts
<1>2. NormalizeContainers[n][k] \in Mappings(n)
  BY DEF Mappings
<1>3. NormalizeContainers[n][k] \in UNION {Mappings(m) : m \in DOMAIN NormalizeContainers}
  BY <1>2
<1> QED BY <1>1, <1>2, <1>3 DEF GroupsRead

-----------------------------------------------------------------------------
LEMMA ServiceInit == Init => SInv
<1> SUFFICES ASSUME Init PROVE SInv OBVIOUS
<1>1. TypeOK
  BY ServiceFailuresAssumption DEF Init, TypeOK
<1> QED
  BY <1>1
  DEF Init, SInv, RefusalLeavesNoService, RegisteredSoFar, Closed, Computed, TaskSteps,
      ServiceSteps

(* What was computed does not change while the ports it read do not.       *)
LEMMA ComputedKept ==
  ASSUME TypeOK, Task # Undefined, ExactlyOneOfContainers, UNCHANGED request,
         \A g \in GroupsRead : groupPort'[g] = groupPort[g]
  PROVE  /\ ContainerDefinitions' = ContainerDefinitions
         /\ ComputeLoadBalancers' = ComputeLoadBalancers
<1>1. NormalizeContainers' = NormalizeContainers
  BY DEF NormalizeContainers, Task
<1>2. ASSUME NEW n \in DOMAIN NormalizeContainers
      PROVE  Mappings(n)' = Mappings(n)
  BY <1>1 DEF Mappings
<1>3. ASSUME NEW n \in DOMAIN NormalizeContainers, NEW m \in Mappings(n)
      PROVE  PortOf(m)' = PortOf(m)
  <2>1. m.targetGroup # Undefined => m.targetGroup \in GroupsRead
    BY MappingFacts DEF Mappings
  <2> QED BY <2>1 DEF PortOf
<1>4. ContainerDefinitions' = ContainerDefinitions
  <2>1. ASSUME NEW n \in DOMAIN NormalizeContainers, NEW k \in DOMAIN NormalizeContainers[n]
        PROVE  PortOf(NormalizeContainers[n][k])' = PortOf(NormalizeContainers[n][k])
    BY <1>1, <1>3, MappingFacts
  <2> QED BY <1>1, <2>1 DEF ContainerDefinitions
<1>5. ComputeLoadBalancers' = ComputeLoadBalancers
  BY <1>1, <1>2, <1>3 DEF ComputeLoadBalancers
<1> QED BY <1>4, <1>5

LEMMA ComputedUnchanged ==
  ASSUME UNCHANGED <<request, groupPort>>
  PROVE  /\ ContainerDefinitions' = ContainerDefinitions
         /\ GroupsRead' = GroupsRead
         /\ Service' = Service
         /\ HasSubnets' = HasSubnets
<1>1. NormalizeContainers' = NormalizeContainers
  BY DEF NormalizeContainers, Task
<1>2. ASSUME NEW m PROVE PortOf(m)' = PortOf(m)
  BY DEF PortOf
<1>3. ASSUME NEW n PROVE Mappings(n)' = Mappings(n)
  BY <1>1 DEF Mappings
<1>4. ContainerDefinitions' = ContainerDefinitions
  BY <1>1, <1>2 DEF ContainerDefinitions
<1>5. ComputeLoadBalancers' = ComputeLoadBalancers
  BY <1>1, <1>2, <1>3 DEF ComputeLoadBalancers
<1>6. GroupsRead' = GroupsRead
  BY <1>1, <1>3 DEF GroupsRead, Task
<1>7. HasDefaultNetwork' = HasDefaultNetwork
  BY DEF HasDefaultNetwork, IsFargate
<1>8. Service' = Service
  BY <1>5, <1>7
  DEF Service, LaunchType, Subnets, AssignPublicIp, ReadsComputed, Task
<1>9. HasSubnets' = HasSubnets
  BY <1>7 DEF HasSubnets, AssignPublicIp
<1> QED BY <1>4, <1>6, <1>8, <1>9

(* A step of the constructor, which may register but creates nothing.      *)
Steps == {"arguments", "containers", "failed"} \cup TaskSteps \cup ServiceSteps

RegistersOnly(resources) ==
  /\ UNCHANGED <<request, engine>>
  /\ registered' = registered \cup resources

LEMMA ConstructKeeps ==
  ASSUME SInv, step # "done", step' \in Steps, RegisteredSoFar',
         NEW resources \in SUBSET Kinds, RegistersOnly(resources),
         "TaskDefinition" \in registered => Helpers \cap resources = {},
         step' = "failed" =>
           /\ {"Service", "SecurityGroup"} \cap registered' = {}
           /\ "TaskDefinition" \in registered' => BothStrategies
  PROVE  SInv'
<1>1. /\ UNCHANGED <<request, created, refused, failures, groupPort, definition, service>>
      /\ registered' = registered \cup resources
  BY DEF RegistersOnly, engine, results
<1>2. "Service" \notin created
  BY DEF SInv, RegisteredSoFar, TypeOK
<1>3. TypeOK'
  BY <1>1 DEF SInv, TypeOK, Steps, TaskSteps, ServiceSteps
<1>4. RefusalLeavesNoService'
  BY <1>1, <1>2 DEF RefusalLeavesNoService, BothStrategies
<1>5. Closed'
  BY <1>1, <1>2 DEF SInv, Closed, TypeOK
<1>6. Computed'
  BY <1>1, ComputedUnchanged DEF SInv, Computed
<1> QED BY <1>3, <1>4, <1>5, <1>6 DEF SInv

LEMMA ThrowKeeps ==
  ASSUME SInv, Throw, step # "done", "TaskDefinition" \in registered => BothStrategies
  PROVE  SInv'
<1>1. step' = "failed" /\ RegistersOnly({}) /\ registered' = registered
  BY DEF Throw, RegistersOnly
<1>2. RegisteredSoFar'
  BY <1>1
  DEF SInv, RegisteredSoFar, RegistersOnly, TaskSteps, ServiceSteps, Task,
      ExactlyOneOfContainers
<1>3. {"Service", "SecurityGroup"} \cap registered' = {}
  BY <1>1 DEF SInv, RegisteredSoFar
<1> QED BY <1>1, <1>2, <1>3, ConstructKeeps DEF Steps

LEMMA ContinueKeeps ==
  ASSUME SInv, step # "done", NEW next \in Steps \ {"failed"},
         NEW resources \in SUBSET Kinds, Continue(next, resources), RegisteredSoFar',
         "TaskDefinition" \in registered => Helpers \cap resources = {}
  PROVE  SInv'
<1>1. step' = next /\ RegistersOnly(resources)
  BY DEF Continue, RegistersOnly
<1> QED BY <1>1, ConstructKeeps

-----------------------------------------------------------------------------
LEMMA CheckArgumentsInv == SInv /\ CheckArguments => SInv'
<1> SUFFICES ASSUME SInv, CheckArguments PROVE SInv' OBVIOUS
<1>1. CASE Throw
  BY <1>1, ThrowKeeps DEF CheckArguments, SInv, RegisteredSoFar
<1>2. CASE Continue(IF Task = Undefined THEN "identifier" ELSE "containers", {})
  <2>1. RegisteredSoFar'
    BY <1>2
    DEF SInv, RegisteredSoFar, CheckArguments, Continue, TaskSteps, ServiceSteps, Task
  <2> QED
    BY <1>2, <2>1, ContinueKeeps
    DEF CheckArguments, Steps, TaskSteps, ServiceSteps
<1> QED BY <1>1, <1>2 DEF CheckArguments

LEMMA CheckContainersInv == SInv /\ CheckContainers => SInv'
<1> SUFFICES ASSUME SInv, CheckContainers PROVE SInv' OBVIOUS
<1>1. CASE Throw
  BY <1>1, ThrowKeeps DEF CheckContainers, SInv, RegisteredSoFar
<1>2. CASE ExactlyOneOfContainers /\ Continue("logGroup", {})
  <2>1. RegisteredSoFar'
    BY <1>2
    DEF SInv, RegisteredSoFar, CheckContainers, Continue, TaskSteps, ServiceSteps, Task,
        ExactlyOneOfContainers
  <2> QED
    BY <1>2, <2>1, ContinueKeeps
    DEF CheckContainers, Steps, TaskSteps, ServiceSteps
<1> QED BY <1>1, <1>2 DEF CheckContainers

(* The helpers, one after the other.                                       *)
LEMMA HelperKeeps ==
  ASSUME SInv, step \in TaskSteps \ {"taskDefinition"}, NEW next \in TaskSteps,
         NEW resources \in SUBSET (Helpers \cup {"ExecutionPolicy"}),
         Continue(next, resources)
  PROVE  SInv'
<1>1. "TaskDefinition" \notin registered
  BY DEF SInv, RegisteredSoFar
<1>2. RegisteredSoFar'
  BY <1>1
  DEF SInv, RegisteredSoFar, Continue, TaskSteps, ServiceSteps, Task,
      ExactlyOneOfContainers, Helpers
<1> QED
  BY <1>1, <1>2, ContinueKeeps
  DEF Steps, TaskSteps, ServiceSteps, Kinds, Helpers

LEMMA RegisterHelperInv ==
  SInv /\ (RegisterLogGroup \/ RegisterTaskRole \/ RegisterExecutionRole) => SInv'
<1> SUFFICES ASSUME SInv, RegisterLogGroup \/ RegisterTaskRole \/ RegisterExecutionRole
             PROVE  SInv'
  OBVIOUS
<1>1. step \in TaskSteps \ {"taskDefinition"} /\ "TaskDefinition" \notin registered
  BY DEF RegisterLogGroup, RegisterTaskRole, RegisterExecutionRole, TaskSteps, SInv,
         RegisteredSoFar
<1>2. CASE Throw
  BY <1>1, <1>2, ThrowKeeps DEF TaskSteps
<1>3. CASE ~Throw
  <2>1. \E next \in TaskSteps, resources \in SUBSET (Helpers \cup {"ExecutionPolicy"}) :
          Continue(next, resources)
    BY <1>3
    DEF RegisterLogGroup, RegisterTaskRole, RegisterExecutionRole, TaskSteps, Helpers
  <2> QED BY <1>1, <2>1, HelperKeeps
<1> QED BY <1>2, <1>3

LEMMA RegisterTaskDefinitionInv == SInv /\ RegisterTaskDefinition => SInv'
<1> SUFFICES ASSUME SInv, RegisterTaskDefinition PROVE SInv' OBVIOUS
<1>1. RegisteredSoFar'
  BY DEF SInv, RegisteredSoFar, RegisterTaskDefinition, Continue, TaskSteps, ServiceSteps,
         Task, ExactlyOneOfContainers
<1> QED
  BY <1>1, ContinueKeeps
  DEF RegisterTaskDefinition, Steps, TaskSteps, ServiceSteps, Kinds, Helpers

LEMMA CheckIdentifierInv == SInv /\ CheckIdentifier => SInv'
<1> SUFFICES ASSUME SInv, CheckIdentifier PROVE SInv' OBVIOUS
<1>1. CASE Throw
  <2>1. step = "identifier" /\ Task = Undefined
    BY <1>1 DEF CheckIdentifier, Continue, Throw
  <2> QED BY <1>1, <2>1, ThrowKeeps DEF SInv, RegisteredSoFar
<1>2. CASE Continue("capacity", {})
  <2>1. RegisteredSoFar'
    BY <1>2
    DEF SInv, RegisteredSoFar, CheckIdentifier, Continue, TaskSteps, ServiceSteps,
        Task, ExactlyOneOfContainers
  <2> QED
    BY <1>2, <2>1, ContinueKeeps
    DEF CheckIdentifier, Steps, TaskSteps, ServiceSteps
<1> QED BY <1>1, <1>2 DEF CheckIdentifier

LEMMA CheckCapacityInv == SInv /\ CheckCapacity => SInv'
<1> SUFFICES ASSUME SInv, CheckCapacity PROVE SInv' OBVIOUS
<1>1. CASE BothStrategies
  BY <1>1, ThrowKeeps DEF CheckCapacity, BothStrategies
<1>2. CASE ~BothStrategies
  <2>1. step = "capacity" /\ Continue("service", {})
    BY <1>2 DEF CheckCapacity, BothStrategies
  <2>2. RegisteredSoFar'
    BY <1>2, <2>1
    DEF SInv, RegisteredSoFar, Continue, TaskSteps, ServiceSteps, Task,
        ExactlyOneOfContainers, BothStrategies
  <2> QED BY <2>1, <2>2, ContinueKeeps DEF Steps, TaskSteps, ServiceSteps
<1> QED BY <1>1, <1>2

LEMMA RegisterServiceInv == SInv /\ RegisterService => SInv'
<1> SUFFICES ASSUME SInv, RegisterService PROVE SInv' OBVIOUS
<1>1. PICK resources \in SUBSET {"SecurityGroup", "Service"} :
        step = "service" /\ Continue("done", resources)
  BY DEF RegisterService
<1>2. RegisteredSoFar'
  BY <1>1
  DEF SInv, RegisteredSoFar, Continue, TaskSteps, ServiceSteps, Task,
      ExactlyOneOfContainers, BothStrategies, Helpers
<1> QED
  BY <1>1, <1>2, ContinueKeeps DEF Steps, TaskSteps, ServiceSteps, Kinds, Helpers

LEMMA ConstructInv == SInv /\ Construct => SInv'
BY CheckArgumentsInv, CheckContainersInv, RegisterHelperInv, RegisterTaskDefinitionInv,
   CheckIdentifierInv, CheckCapacityInv, RegisterServiceInv
DEF Construct

-----------------------------------------------------------------------------
(* The engine.  A service waits for its task definition, and both for the  *)
(* helpers: whatever is refused, only the execution policy is not missed.  *)
LEMMA RegisteredUnchanged ==
  ASSUME SInv, UNCHANGED program
  PROVE  RegisteredSoFar'
BY DEF program, SInv, RegisteredSoFar, Task, ExactlyOneOfContainers, BothStrategies,
       TaskSteps, ServiceSteps

LEMMA NothingMissing ==
  ASSUME SInv, "Service" \in registered, ServiceNeeds \cap registered \subseteq created
  PROVE  registered \subseteq created \cup {"Service", "ExecutionPolicy"}
<1>1. step = "done"
  BY DEF SInv, RegisteredSoFar
<1>2. Helpers \cap registered \subseteq created
  BY <1>1 DEF SInv, RegisteredSoFar, Closed, ServiceNeeds, ServiceSteps
<1> QED BY <1>2 DEF SInv, TypeOK, Kinds, Helpers, ServiceNeeds

LEMMA LaunchTypes ==
  ASSUME TypeOK
  PROVE  Service.launchType \in {"FARGATE", "EC2", Undefined}
BY RequestFacts DEF Service, LaunchType

LEMMA CreateInv == ASSUME SInv, NEW r \in Kinds, Create(r) PROVE SInv'
<1>1. /\ r \in registered \ (created \cup refused)
      /\ Needs(r) \subseteq created
      /\ ReadsGroups(r) \subseteq DOMAIN groupPort
      /\ InputsAreReadable(r)
      /\ created' = created \cup {r}
      /\ definition' = IF r = "TaskDefinition" THEN ContainerDefinitions ELSE definition
      /\ service' = IF r = "Service" THEN Service ELSE service
      /\ UNCHANGED <<request, step, logs, registered, refused, failures, groupPort>>
  BY DEF Create, IsReady, program
<1>2. /\ ContainerDefinitions' = ContainerDefinitions
      /\ GroupsRead' = GroupsRead
      /\ Service' = Service
      /\ HasSubnets' = HasSubnets
  BY <1>1, ComputedUnchanged
<1>3. RegisteredSoFar'
  BY <1>1, RegisteredUnchanged DEF program
<1>4. Computed'
  BY <1>1, <1>2 DEF SInv, Computed, ReadsGroups
<1>5. Closed'
  BY <1>1, <1>2
  DEF SInv, Closed, Needs, MayNeed, Helpers, InputsAreReadable, ServiceNeeds
<1>6. TypeOK'
  <2>1. definition' # Undefined => DOMAIN definition' \in SUBSET Names
    <3>1. CASE r = "TaskDefinition"
      <4>1. DOMAIN NormalizeContainers \subseteq Names
        BY <1>1, <3>1, ContainerFacts DEF SInv, RegisteredSoFar
      <4> QED BY <1>1, <3>1, <4>1 DEF ContainerDefinitions
    <3>2. CASE r # "TaskDefinition"
      BY <1>1, <3>2 DEF SInv, TypeOK
    <3> QED BY <3>1, <3>2
  <2>2. service' # Undefined => service'.launchType \in {"FARGATE", "EC2", Undefined}
    BY <1>1, LaunchTypes DEF SInv, TypeOK
  <2> QED BY <1>1, <2>1, <2>2 DEF SInv, TypeOK
<1>7. RefusalLeavesNoService'
  <2>1. /\ HasDefaultNetwork' = HasDefaultNetwork
        /\ Subnets' = Subnets
        /\ BothStrategies' = BothStrategies
    BY <1>1 DEF HasDefaultNetwork, IsFargate, Subnets, AssignPublicIp, BothStrategies
  <2>2. CASE r = "Service"
    <3>1. refused \subseteq {"ExecutionPolicy"}
      <4>1. ServiceNeeds \cap registered \subseteq created
        BY <1>1, <2>2 DEF Needs, MayNeed
      <4> QED BY <1>1, <2>2, <4>1, NothingMissing DEF SInv, TypeOK
    <3>2. HasDefaultNetwork /\ Subnets = "private" => request.privateSubnets
      BY <1>1, <2>2, RequestFacts
      DEF InputsAreReadable, HasSubnets, Subnets, AssignPublicIp, OrElse, Optional, SInv
    <3> QED
      BY <1>1, <2>1, <3>1, <3>2 DEF SInv, RefusalLeavesNoService, BothStrategies
  <2>3. CASE r # "Service"
    BY <1>1, <2>1, <2>3 DEF SInv, RefusalLeavesNoService, BothStrategies
  <2> QED BY <2>2, <2>3
<1> QED BY <1>3, <1>4, <1>5, <1>6, <1>7 DEF SInv

LEMMA RefuseInv == ASSUME SInv, NEW r \in Kinds, Refuse(r) PROVE SInv'
<1>1. /\ r \in registered \ (created \cup refused)
      /\ refused' = refused \cup {r}
      /\ Needs(r) \subseteq created
      /\ UNCHANGED <<request, step, logs, registered, created, groupPort, definition, service>>
  BY DEF Refuse, IsReady, program, results
<1>2. failures' \in 0..MaxFailures
  BY ServiceFailuresAssumption DEF Refuse, SInv, TypeOK
<1>3. RegisteredSoFar'
  BY <1>1, RegisteredUnchanged DEF program
<1>4. Computed' /\ Closed'
  BY <1>1, ComputedUnchanged DEF SInv, Computed, Closed
<1>5. TypeOK'
  BY <1>1, <1>2 DEF SInv, TypeOK
<1>6. RefusalLeavesNoService'
  <2>1. "Service" \in created => r = "ExecutionPolicy"
    BY <1>1, NothingMissing DEF SInv, Closed, TypeOK
  <2> QED
    BY <1>1, <2>1
    DEF SInv, RefusalLeavesNoService, HasDefaultNetwork, IsFargate, Subnets, AssignPublicIp
<1> QED BY <1>3, <1>4, <1>5, <1>6 DEF SInv

(* A group that becomes known is one that nothing computed has read.       *)
LEMMA GroupIsKnownInv ==
  ASSUME SInv, NEW g \in TargetGroups, NEW port \in Optional(Ports),
         TargetGroupIsKnown(g, port)
  PROVE  SInv'
<1>1. /\ g \notin DOMAIN groupPort
      /\ groupPort' = [h \in DOMAIN groupPort \cup {g} |->
                         IF h = g THEN port ELSE groupPort[h]]
      /\ UNCHANGED <<request, step, logs, registered, created, refused, failures, definition,
                     service>>
  BY DEF TargetGroupIsKnown, program, results
<1>2. DOMAIN groupPort' = DOMAIN groupPort \cup {g}
  BY <1>1
<1>3. \A h \in DOMAIN groupPort : groupPort'[h] = groupPort[h]
  BY <1>1
<1>4. RegisteredSoFar'
  BY <1>1, RegisteredUnchanged DEF program
<1>5. TypeOK'
  <2>1. \A h \in DOMAIN groupPort' : groupPort'[h] \in Optional(Ports)
    BY <1>1 DEF SInv, TypeOK
  <2> QED BY <1>1, <1>2, <2>1 DEF SInv, TypeOK
<1>6. HasSubnets' = HasSubnets /\ RefusalLeavesNoService'
  BY <1>1
  DEF SInv, RefusalLeavesNoService, HasDefaultNetwork, IsFargate, Subnets, AssignPublicIp,
      HasSubnets
<1>7. Closed'
  BY <1>1, <1>6 DEF SInv, Closed
<1>8. GroupsRead' = GroupsRead
  BY <1>1 DEF GroupsRead, Mappings, NormalizeContainers, Task
<1>9. ASSUME "TaskDefinition" \in created
      PROVE  /\ ContainerDefinitions' = ContainerDefinitions
             /\ ComputeLoadBalancers' = ComputeLoadBalancers
  <2>1. Task # Undefined /\ ExactlyOneOfContainers
    BY <1>9 DEF SInv, RegisteredSoFar, TypeOK
  <2>2. \A h \in GroupsRead : groupPort'[h] = groupPort[h]
    BY <1>3, <1>9 DEF SInv, Computed
  <2> QED BY <1>1, <2>1, <2>2, ComputedKept DEF SInv
<1>10. ASSUME "Service" \in created PROVE Service' = Service
  <2>1. ReadsComputed' = ReadsComputed
    BY <1>1 DEF ReadsComputed, Task
  <2>2. ReadsComputed => "TaskDefinition" \in created
    BY <1>10
    DEF ReadsComputed, SInv, Closed, ServiceNeeds, RegisteredSoFar, TypeOK, ServiceSteps
  <2> QED
    BY <1>1, <1>9, <2>1, <2>2
    DEF Service, LaunchType, Subnets, HasDefaultNetwork, IsFargate, AssignPublicIp
<1>11. Computed'
  BY <1>1, <1>2, <1>8, <1>9, <1>10 DEF SInv, Computed
<1> QED BY <1>4, <1>5, <1>6, <1>7, <1>11 DEF SInv

LEMMA ServiceUnchanged == SInv /\ UNCHANGED vars => SInv'
<1> SUFFICES ASSUME SInv, UNCHANGED vars PROVE SInv' OBVIOUS
<1>1. UNCHANGED <<request, step, logs, registered, created, refused, failures, groupPort,
                  definition, service>>
  BY DEF vars, program, engine, results
<1>2. RegisteredSoFar'
  BY <1>1, RegisteredUnchanged DEF program
<1>3. Computed' /\ Closed'
  BY <1>1, ComputedUnchanged DEF SInv, Computed, Closed
<1> QED
  BY <1>1, <1>2, <1>3
  DEF SInv, TypeOK, RefusalLeavesNoService, HasDefaultNetwork, IsFargate, Subnets,
      AssignPublicIp

-----------------------------------------------------------------------------
(* What the service's invariant implies.                                   *)

(* A service that reads the computed list has a task definition, and the   *)
(* ports of its groups are known.                                          *)
LEMMA AttachedFacts ==
  ASSUME SInv, service # Undefined, service.loadBalancers # Undefined
  PROVE  /\ "TaskDefinition" \in created
         /\ Task # Undefined /\ ExactlyOneOfContainers
         /\ service.loadBalancers = ComputeLoadBalancers
         /\ definition = ContainerDefinitions
         /\ GroupsRead \subseteq DOMAIN groupPort
<1>1. "Service" \in created /\ service = Service
  BY DEF SInv, Computed
<1>2. ReadsComputed /\ service.loadBalancers = ComputeLoadBalancers
  BY <1>1 DEF Service
<1>3. "TaskDefinition" \in created
  BY <1>1, <1>2
  DEF ReadsComputed, SInv, Closed, ServiceNeeds, RegisteredSoFar, TypeOK, ServiceSteps
<1> QED BY <1>2, <1>3 DEF SInv, Computed, RegisteredSoFar, TypeOK

LEMMA DefinitionIsOne ==
  ASSUME SInv, "TaskDefinition" \in created
  PROVE  definition # Undefined
<1>1. Task # Undefined /\ ExactlyOneOfContainers /\ definition = ContainerDefinitions
  BY DEF SInv, RegisteredSoFar, TypeOK, Computed
<1> DEFINE named == DOMAIN NormalizeContainers
<1>2. named \in SUBSET Names
  BY <1>1, ContainerFacts DEF SInv
<1>3. ASSUME NEW n \in named
      PROVE  /\ ContainerDefinitions[n] =
                  [k \in DOMAIN NormalizeContainers[n] |->
                     GetMappingInputs(NormalizeContainers[n][k],
                                      PortOf(NormalizeContainers[n][k]))]
             /\ NormalizeContainers[n] \in Seq(Mapping)
  BY <1>1, <1>3, ContainerFacts DEF ContainerDefinitions, SInv
<1>4. ASSUME NEW n \in named, NEW k \in DOMAIN NormalizeContainers[n]
      PROVE  GetMappingInputs(NormalizeContainers[n][k], PortOf(NormalizeContainers[n][k]))
               \in PortMapping
  <2>1. NormalizeContainers[n][k] \in Mapping
    BY <1>1, <1>4, MappingFacts DEF SInv
  <2>2. PortOf(NormalizeContainers[n][k]) \in Optional(Ports)
    BY <1>1, <1>4, MappingFacts DEF PortOf, SInv, Computed, TypeOK, Optional
  <2> QED BY <2>1, <2>2 DEF GetMappingInputs, OrElse, Optional, Mapping, PortMapping
<1>5. ASSUME NEW n \in named PROVE ContainerDefinitions[n] \in Seq(PortMapping)
  <2>1. Len(NormalizeContainers[n]) \in Nat
          /\ DOMAIN NormalizeContainers[n] = 1..Len(NormalizeContainers[n])
    BY <1>3
  <2>2. ContainerDefinitions[n] \in [1..Len(NormalizeContainers[n]) -> PortMapping]
    BY <1>3, <1>4, <2>1, ZenonT(30)
  <2> QED BY <2>1, <2>2
<1>6. ContainerDefinitions \in [named -> Seq(PortMapping)]
  BY <1>5 DEF ContainerDefinitions
<1> QED BY <1>1, <1>2, <1>6, UndefinedAssumption

LEMMA Attached == SInv => GroupsAreAttached
<1> SUFFICES ASSUME SInv, service # Undefined, service.loadBalancers # Undefined
             PROVE  /\ definition # Undefined
                    /\ \A b \in service.loadBalancers : b.containerName \in DOMAIN definition
                    /\ \A g \in GroupsRead : groupPort[g] # Undefined =>
                         \E b \in service.loadBalancers : b.targetGroup = g
  BY DEF GroupsAreAttached
<1>1. definition # Undefined
  BY AttachedFacts, DefinitionIsOne
<1>2. ASSUME NEW b \in service.loadBalancers PROVE b.containerName \in DOMAIN definition
  BY AttachedFacts, <1>2 DEF ComputeLoadBalancers, ContainerDefinitions
<1>3. ASSUME NEW g \in GroupsRead, groupPort[g] # Undefined
      PROVE  \E b \in service.loadBalancers : b.targetGroup = g
  <2>1. PICK n \in DOMAIN NormalizeContainers : \E m \in Mappings(n) : m.targetGroup = g
    BY AttachedFacts, <1>3 DEF GroupsRead
  <2>2. PICK m \in Mappings(n) : m.targetGroup = g
    BY <2>1
  <2>3. g # Undefined /\ PortOf(m) = groupPort[g]
    BY <1>3, <2>2 DEF PortOf, GroupsRead
  <2> DEFINE b == [containerName |-> n, containerPort |-> PortOf(m),
                   targetGroup |-> m.targetGroup]
  <2>4. b \in ComputeLoadBalancers
    BY <1>3, <2>2, <2>3 DEF ComputeLoadBalancers
  <2> QED BY <2>2, <2>4, AttachedFacts
<1> QED BY <1>1, <1>2, <1>3

(* Exactly one of the three ways, whatever the arguments.                  *)
LEMMA LaunchedOneWay == SInv => OneWayToLaunch
<1> SUFFICES ASSUME SInv, service # Undefined PROVE OneWayToLaunch
  BY DEF OneWayToLaunch
<1> DEFINE ways ==
      {w \in {"type", "strategies", "cluster"} :
         CASE w = "type" -> service.launchType # Undefined
           [] w = "strategies" -> request.capacityProviderStrategies
           [] w = "cluster" -> request.useClusterDefaultCapacityProviderStrategy}
<1>1. service.launchType = LaunchType /\ ~BothStrategies
  BY DEF SInv, Computed, Service, RegisteredSoFar, TypeOK
<1>2. /\ {request.capacityProviderStrategies,
          request.useClusterDefaultCapacityProviderStrategy} \subseteq BOOLEAN
      /\ request.launch # Undefined
  BY RequestFacts, UndefinedAssumption DEF SInv
<1>3. \E w : ways = {w}
  <2>1. CASE request.capacityProviderStrategies
    <3>1. service.launchType = Undefined /\ ~request.useClusterDefaultCapacityProviderStrategy
      BY <1>1, <2>1 DEF LaunchType, BothStrategies
    <3>2. ways = {"strategies"}
      BY <2>1, <3>1
    <3> QED BY <3>2
  <2>2. CASE request.useClusterDefaultCapacityProviderStrategy
    <3>1. service.launchType = Undefined /\ ~request.capacityProviderStrategies
      BY <1>1, <2>2 DEF LaunchType, BothStrategies
    <3>2. ways = {"cluster"}
      BY <2>2, <3>1
    <3> QED BY <3>2
  <2>3. CASE ~request.capacityProviderStrategies
               /\ ~request.useClusterDefaultCapacityProviderStrategy
    <3>1. service.launchType # Undefined
      BY <1>1, <1>2, <2>3 DEF LaunchType
    <3>2. ways = {"type"}
      BY <2>3, <3>1
    <3> QED BY <3>2
  <2> QED BY <2>1, <2>2, <2>3
<1>4. Cardinality(ways) = 1
  BY <1>3, FS_Singleton
<1> QED BY <1>4 DEF OneWayToLaunch

(* The ports of one mapping, whatever port the group has.                  *)
LEMMA MappingInputs ==
  ASSUME NEW m, NEW port
  PROVE  LET inputs == GetMappingInputs(m, port)
         IN  /\ m.containerPort # Undefined => inputs.containerPort = m.containerPort
             /\ m.hostPort # Undefined => inputs.hostPort = m.hostPort
             /\ {m.containerPort, m.hostPort} \subseteq {Undefined, port} =>
                  inputs.containerPort = port
BY DEF GetMappingInputs, OrElse

LEMMA PortsFollow == SInv => PortsAgree
<1> SUFFICES ASSUME SInv PROVE PortsAgree OBVIOUS
<1>1. ASSUME definition # Undefined,
             NEW n \in DOMAIN definition, NEW k \in DOMAIN definition[n]
      PROVE  /\ n \in DOMAIN NormalizeContainers
             /\ k \in DOMAIN NormalizeContainers[n]
             /\ definition[n][k] = GetMappingInputs(NormalizeContainers[n][k],
                                                    PortOf(NormalizeContainers[n][k]))
  BY <1>1 DEF SInv, Computed, ContainerDefinitions
<1>2. PortsAgreeUnlessStated
  <2> SUFFICES ASSUME definition # Undefined, NEW n \in DOMAIN definition,
                      NEW k \in DOMAIN definition[n]
               PROVE  LET mapping == NormalizeContainers[n][k]
                          stated == {p \in {mapping.containerPort, mapping.hostPort,
                                            PortOf(mapping)} : p # Undefined}
                      IN  Cardinality(stated) = 1 =>
                            /\ definition[n][k].containerPort \in stated
                            /\ definition[n][k].hostPort \in stated
    BY DEF PortsAgreeUnlessStated
  <2> DEFINE m == NormalizeContainers[n][k]
             stated == {p \in {m.containerPort, m.hostPort, PortOf(m)} : p # Undefined}
  <2>1. Cardinality(stated) = 1 => stated # {}
    BY FS_EmptySet
  <2>2. definition[n][k] = GetMappingInputs(m, PortOf(m))
    BY <1>1
  <2>3. stated # {} => /\ definition[n][k].containerPort \in stated
                       /\ definition[n][k].hostPort \in stated
    BY <2>2 DEF GetMappingInputs, OrElse
  <2> QED BY <2>1, <2>3
<1>3. StatedPortsAreKept
  BY <1>1, MappingInputs DEF StatedPortsAreKept
<1>4. ServedPortIsExposed
  <2> SUFFICES ASSUME service # Undefined, service.loadBalancers # Undefined,
                      NEW b \in service.loadBalancers,
                      \A mapping \in Mappings(b.containerName) :
                        mapping.targetGroup = b.targetGroup => OnGroupsPort(mapping)
               PROVE  \E k \in DOMAIN definition[b.containerName] :
                        definition[b.containerName][k].containerPort = b.containerPort
    BY DEF ServedPortIsExposed
  <2>1. PICK n \in DOMAIN NormalizeContainers :
          \E m \in Mappings(n) : b = [containerName |-> n, containerPort |-> PortOf(m),
                                      targetGroup |-> m.targetGroup]
    BY AttachedFacts DEF ComputeLoadBalancers
  <2>2. PICK m \in Mappings(n) : b = [containerName |-> n, containerPort |-> PortOf(m),
                                      targetGroup |-> m.targetGroup]
    BY <2>1
  <2>3. PICK k \in DOMAIN NormalizeContainers[n] : m = NormalizeContainers[n][k]
    BY <2>2 DEF Mappings
  <2>4. OnGroupsPort(m)
    BY <2>2
  <2>5. GetMappingInputs(m, PortOf(m)).containerPort = PortOf(m)
    BY <2>4, MappingInputs DEF OnGroupsPort
  <2>6. /\ k \in DOMAIN definition[n]
        /\ definition[n][k] = GetMappingInputs(m, PortOf(m))
    BY <2>3, AttachedFacts DEF ContainerDefinitions
  <2> QED BY <2>2, <2>5, <2>6
<1> QED BY <1>2, <1>3, <1>4 DEF PortsAgree

-----------------------------------------------------------------------------
(* The balancer.  What has passed at each step of its constructor, and     *)
(* that nothing of the endpoints is registered before.                     *)
BothListeners ==
  balancerRequest.listener # Undefined /\ balancerRequest.listeners # Undefined
BothGroups ==
  /\ balancerRequest.defaultTargetGroup # Undefined
  /\ balancerRequest.defaultTargetGroupPort # Undefined

BalancerPassed ==
  /\ balancerStep \notin {"subnets", "failed"} =>
       ~(Balancer!Cardinality(balancerRequest.subnetArgs) > 1)
  /\ balancerStep \notin {"subnets", "listeners", "failed"} => ~BothListeners
  /\ balancerStep \in {"listening", "done"} =>
       ~BothGroups /\ targetGroup = Balancer!DefaultTargetGroup

BalancerSoFar ==
  /\ balancerStep \notin {"listening", "done"} =>
       \A i \in DOMAIN balancerRegistered :
         balancerRegistered[i] \notin {"TargetGroup", "Listener"}
  /\ balancerStep \notin {"targetGroup", "listening", "done", "failed"} =>
       \A i \in DOMAIN balancerRegistered : balancerRegistered[i] # "LoadBalancer"
  /\ balancerStep = "failed" =>
       \A i \in DOMAIN balancerRegistered :
         balancerRegistered[i] = "LoadBalancer" => BothGroups

(* The listener that an input asks for.                                    *)
ListenerFor(given) ==
  Balancer!Listener(IF balancerRequest.listeners = Undefined
                    THEN Balancer!LoneListenerDefaults
                    ELSE Balancer!ListenerDefaults(given), given)

Listens ==
  /\ \A k \in DOMAIN listening : listening[k] = ListenerFor(Balancer!InputOf(k))
  /\ balancerStep \notin {"listening", "done"} => listening = <<>>
  /\ balancerRequest.listeners = Undefined =>
       /\ balancerStep = "listening" => listening = <<>>
       /\ balancerStep = "done" => Len(listening) = 1
  /\ balancerRequest.listeners # Undefined =>
       Len(listening) <= Len(balancerRequest.listeners)

BInv == Balancer!TypeOK /\ BalancerPassed /\ BalancerSoFar /\ Listens

-----------------------------------------------------------------------------
(* Types of what the balancer computes.                                    *)
LEMMA BalancerRequestFacts ==
  ASSUME balancerRequest \in BalancerRequests
  PROVE  /\ balancerRequest.type \in {"application", "network"}
         /\ balancerRequest.subnetArgs \subseteq Balancer!SubnetArgs
         /\ balancerRequest.security \subseteq Balancer!SecurityArgs
         /\ balancerRequest.defaultTargetGroup \in Optional(Balancer!Endpoint)
         /\ balancerRequest.defaultTargetGroupPort \in Optional(Ports)
         /\ balancerRequest.listener \in Optional(Balancer!ListenerInput)
         /\ balancerRequest.listeners \in Optional(Seq(Balancer!ListenerInput))
BY BalancerRequestAssumption DEF Balancer!Request, Balancer!Optional, Optional

IsEndpoint(e) == e.port \in Ports /\ e.protocol \in Balancer!Protocols

LEMMA ListenerProtocolType ==
  ASSUME NEW given \in Optional(Balancer!ListenerInput), NEW port \in Optional(Ports)
  PROVE  IsEndpoint(Balancer!GetListenerProtocol(given, port))
BY PortsAssumption
DEF IsEndpoint, Balancer!GetListenerProtocol, Balancer!OrElse, Balancer!ProtocolToPort,
    Balancer!PortToProtocol, Balancer!Protocols, Balancer!ListenerInput, Optional,
    Balancer!Optional

LEMMA ListenerType ==
  ASSUME NEW defaults, IsEndpoint(defaults), NEW given \in Optional(Balancer!ListenerInput)
  PROVE  Balancer!Listener(defaults, given)
           \in [port : Ports, protocol : Balancer!Protocols, toDefaultGroup : BOOLEAN]
<1>1. IsEndpoint(Balancer!Overridden(defaults, given))
  BY DEF IsEndpoint, Balancer!Overridden, Balancer!OrElse, Balancer!ListenerInput, Optional,
         Balancer!Optional
<1> QED
  BY <1>1 DEF IsEndpoint, Balancer!Listener, Balancer!ListenerInput, Optional

LEMMA DefaultProtocolFacts ==
  ASSUME balancerRequest \in BalancerRequests
  PROVE  /\ Balancer!GetDefaultProtocol \in Balancer!Endpoint
         /\ balancerRequest.listeners = Undefined =>
              /\ Balancer!GetDefaultProtocol =
                   Balancer!GetListenerProtocol(balancerRequest.listener,
                                                balancerRequest.defaultTargetGroupPort)
              /\ IsEndpoint(Balancer!GetDefaultProtocol)
<1> DEFINE of(given) ==
      Balancer!GetListenerProtocol(given, balancerRequest.defaultTargetGroupPort)
<1>1. ASSUME NEW given \in Optional(Balancer!ListenerInput)
      PROVE  IsEndpoint(of(given)) /\ of(given) \in Balancer!Endpoint
  <2>1. IsEndpoint(of(given))
    BY BalancerRequestFacts, ListenerProtocolType
  <2> QED
    BY <2>1
    DEF IsEndpoint, Balancer!Endpoint, Balancer!GetListenerProtocol, Balancer!Optional
<1>2. Balancer!Nothing \in Balancer!Endpoint
  BY DEF Balancer!Nothing, Balancer!Endpoint, Balancer!Optional
<1>3. CASE balancerRequest.listeners = Undefined
  <2>1. Balancer!GetDefaultProtocol = of(balancerRequest.listener)
    BY <1>3 DEF Balancer!GetDefaultProtocol
  <2> QED BY <1>1, <2>1, BalancerRequestFacts
<1>4. CASE balancerRequest.listeners # Undefined
  <2>1. balancerRequest.listeners \in Seq(Balancer!ListenerInput)
    BY <1>4, BalancerRequestFacts DEF Optional
  <2>2. \/ Balancer!GetDefaultProtocol \in {Balancer!Nothing, of(Undefined)}
        \/ /\ Len(balancerRequest.listeners) > 1
           /\ Balancer!GetDefaultProtocol = of(balancerRequest.listeners[1])
    <3>1. PICK n \in Nat : n = Len(balancerRequest.listeners)
      BY <2>1
    <3>2. CASE n = 0
      BY <1>4, <3>1, <3>2 DEF Balancer!GetDefaultProtocol
    <3>3. CASE n = 1
      BY <1>4, <3>1, <3>3 DEF Balancer!GetDefaultProtocol
    <3>4. CASE n > 1
      <4>1. n # 0 /\ n # 1
        BY <3>4
      <4>2. Balancer!GetDefaultProtocol = of(balancerRequest.listeners[1])
        BY <1>4, <3>1, <4>1 DEF Balancer!GetDefaultProtocol
      <4> QED BY <3>1, <3>4, <4>2
    <3>5. n = 0 \/ n = 1 \/ n > 1
      OBVIOUS
    <3> QED BY <3>2, <3>3, <3>4, <3>5
  <2>3. Undefined \in Optional(Balancer!ListenerInput)
    BY DEF Optional
  <2>4. Len(balancerRequest.listeners) > 1 =>
          balancerRequest.listeners[1] \in Optional(Balancer!ListenerInput)
    BY <2>1 DEF Optional
  <2> QED BY <1>1, <1>2, <1>4, <2>2, <2>3, <2>4
<1> QED BY <1>3, <1>4

LEMMA TargetGroupType ==
  ASSUME balancerRequest \in BalancerRequests
  PROVE  Balancer!DefaultTargetGroup \in Balancer!Endpoint
<1> DEFINE defaults ==
      IF Balancer!IsApplication THEN Balancer!GetDefaultProtocol
      ELSE [port |-> Balancer!OrElse(balancerRequest.defaultTargetGroupPort, 80),
            protocol |-> "TCP"]
<1>1. defaults \in Balancer!Endpoint
  BY DefaultProtocolFacts, BalancerRequestFacts, PortsAssumption
  DEF Balancer!Endpoint, Balancer!OrElse, Balancer!Protocols, Optional, Balancer!Optional
<1>2. Balancer!DefaultTargetGroup =
        Balancer!Overridden(defaults, balancerRequest.defaultTargetGroup)
  BY DEF Balancer!DefaultTargetGroup
<1> HIDE DEF defaults
<1> QED
  BY <1>1, <1>2, BalancerRequestFacts
  DEF Balancer!Overridden, Balancer!OrElse, Balancer!Endpoint, Optional, Balancer!Optional

LEMMA ListenerForType ==
  ASSUME balancerRequest \in BalancerRequests, NEW given,
         IF balancerRequest.listeners = Undefined THEN given = balancerRequest.listener
                                                  ELSE given \in Balancer!ListenerInput
  PROVE  ListenerFor(given)
           \in [port : Ports, protocol : Balancer!Protocols, toDefaultGroup : BOOLEAN]
<1> DEFINE defaults == IF balancerRequest.listeners = Undefined
                       THEN Balancer!LoneListenerDefaults
                       ELSE Balancer!ListenerDefaults(given)
<1>1. given \in Optional(Balancer!ListenerInput)
  BY BalancerRequestFacts DEF Optional
<1>2. IsEndpoint([port |-> 80, protocol |-> "TCP"])
  BY PortsAssumption DEF IsEndpoint, Balancer!Protocols
<1>3. IsEndpoint(Balancer!GetListenerProtocol(given, Undefined))
  BY <1>1, ListenerProtocolType DEF Optional
<1>4. IsEndpoint(defaults)
  BY <1>2, <1>3, DefaultProtocolFacts
  DEF Balancer!LoneListenerDefaults, Balancer!ListenerDefaults
<1> HIDE DEF defaults
<1>5. ListenerFor(given) = Balancer!Listener(defaults, given)
  BY DEF ListenerFor, defaults
<1> QED BY <1>1, <1>4, <1>5, ListenerType

(* The instance's Cardinality is that of FiniteSets.                       *)
LEMMA SameCardinality ==
  ASSUME NEW S PROVE Balancer!Cardinality(S) = Cardinality(S)
BY Zenon DEF Balancer!Cardinality, Cardinality

-----------------------------------------------------------------------------
LEMMA BalancerInit ==
  ASSUME balancerRequest \in BalancerRequests, Balancer!Init
  PROVE  BInv
BY DEF Balancer!Init, BInv, Balancer!TypeOK, BalancerPassed, BalancerSoFar, Listens,
       Balancer!Optional

LEMMA BalancerThrowKeeps ==
  ASSUME BInv, Balancer!Throw,
         \/ balancerStep \in {"subnets", "listeners", "security"}
         \/ balancerStep = "targetGroup" /\ BothGroups
  PROVE  BInv'
<1>1. /\ balancerStep' = "failed"
      /\ UNCHANGED <<balancerRequest, balancerRegistered, security, targetGroup, listening>>
  BY DEF Balancer!Throw
<1>2. Balancer!TypeOK'
  BY <1>1 DEF BInv, Balancer!TypeOK
<1>3. BalancerSoFar' /\ BalancerPassed'
  BY <1>1 DEF BInv, BalancerSoFar, BalancerPassed, BothGroups
<1>4. ASSUME NEW k PROVE Balancer!InputOf(k)' = Balancer!InputOf(k)
  BY <1>1 DEF Balancer!InputOf
<1>5. listening = <<>>
  BY DEF BInv, Listens
<1>6. Listens'
  BY <1>1, <1>5 DEF BInv, Listens
<1> QED BY <1>2, <1>3, <1>6 DEF BInv

(* A step before the listeners.                                            *)
LEMMA BeforeListening ==
  ASSUME BInv, balancerStep \notin {"listening", "done"}, balancerStep' # "done",
         UNCHANGED <<balancerRequest, listening>>
  PROVE  Listens'
<1>1. listening = <<>>
  BY DEF BInv, Listens
<1> QED BY <1>1 DEF BInv, Listens

LEMMA ChecksKeep == BInv /\ (Balancer!ChooseSubnets \/ Balancer!CheckListeners) => BInv'
<1> SUFFICES ASSUME BInv, Balancer!ChooseSubnets \/ Balancer!CheckListeners PROVE BInv'
  OBVIOUS
<1>1. CASE Balancer!Throw
  BY <1>1, BalancerThrowKeeps DEF Balancer!ChooseSubnets, Balancer!CheckListeners
<1>2. CASE ~Balancer!Throw
  <2>1. /\ balancerStep = "subnets" => /\ ~(Balancer!Cardinality(balancerRequest.subnetArgs) > 1)
                                       /\ balancerStep' = "listeners"
        /\ balancerStep = "listeners" => /\ ~BothListeners
                                         /\ balancerStep' \in {"security", "balancer"}
        /\ balancerStep \in {"subnets", "listeners"}
        /\ UNCHANGED <<balancerRequest, balancerRegistered, security, targetGroup, listening>>
    BY <1>2
    DEF Balancer!ChooseSubnets, Balancer!CheckListeners, Balancer!Continue, BothListeners,
        Balancer!BothListenersGiven
  <2>2. Balancer!TypeOK'
    BY <2>1 DEF BInv, Balancer!TypeOK
  <2>3. BalancerPassed' /\ BalancerSoFar'
    BY <2>1 DEF BInv, BalancerPassed, BalancerSoFar, BothListeners
  <2>4. Listens'
    BY <2>1, BeforeListening
  <2> QED BY <2>2, <2>3, <2>4 DEF BInv
<1> QED BY <1>1, <1>2

(* A kind appended to what is registered.                                  *)
BalancerKinds == {"SecurityGroup", "LoadBalancer", "TargetGroup", "Listener"}

LEMMA AppendFacts ==
  ASSUME NEW kinds \in Seq(BalancerKinds), NEW kind \in BalancerKinds
  PROVE  /\ Append(kinds, kind) \in Seq(BalancerKinds)
         /\ \A i \in DOMAIN Append(kinds, kind) :
              \/ i \in DOMAIN kinds /\ Append(kinds, kind)[i] = kinds[i]
              \/ Append(kinds, kind)[i] = kind
OBVIOUS

LEMMA ChooseSecurityGroupInv == BInv /\ Balancer!ChooseSecurityGroup => BInv'
<1> SUFFICES ASSUME BInv, Balancer!ChooseSecurityGroup PROVE BInv' OBVIOUS
<1>1. CASE Balancer!Throw
  BY <1>1, BalancerThrowKeeps DEF Balancer!ChooseSecurityGroup
<1>2. CASE ~Balancer!Throw
  <2>1. /\ balancerStep = "security" /\ balancerStep' = "balancer"
        /\ security' \in Optional({"user", "default"})
        /\ UNCHANGED <<balancerRequest, targetGroup, listening>>
    BY <1>2 DEF Balancer!ChooseSecurityGroup, Balancer!Continue, Optional
  <2>2. \/ UNCHANGED balancerRegistered
        \/ balancerRegistered' = Append(balancerRegistered, "SecurityGroup")
    BY <1>2 DEF Balancer!ChooseSecurityGroup
  <2>3. balancerRegistered \in Seq(BalancerKinds)
    BY DEF BInv, Balancer!TypeOK, BalancerKinds
  <2>4. /\ balancerRegistered' \in Seq(BalancerKinds)
        /\ \A i \in DOMAIN balancerRegistered' :
             \/ i \in DOMAIN balancerRegistered
                  /\ balancerRegistered'[i] = balancerRegistered[i]
             \/ balancerRegistered'[i] = "SecurityGroup"
    BY <2>2, <2>3, AppendFacts DEF BalancerKinds
  <2>5. Balancer!TypeOK'
    BY <2>1, <2>4 DEF BInv, Balancer!TypeOK, BalancerKinds, Optional, Balancer!Optional
  <2>6. BalancerPassed' /\ BalancerSoFar'
    BY <2>1, <2>4 DEF BInv, BalancerPassed, BalancerSoFar, BothListeners
  <2>7. Listens'
    BY <2>1, BeforeListening
  <2> QED BY <2>5, <2>6, <2>7 DEF BInv
<1> QED BY <1>1, <1>2

LEMMA RegisterBalancerInv == BInv /\ Balancer!RegisterBalancer => BInv'
<1> SUFFICES ASSUME BInv, Balancer!RegisterBalancer PROVE BInv' OBVIOUS
<1>1. /\ balancerStep = "balancer" /\ balancerStep' = "targetGroup"
      /\ balancerRegistered' = Append(balancerRegistered, "LoadBalancer")
      /\ UNCHANGED <<balancerRequest, security, targetGroup, listening>>
  BY DEF Balancer!RegisterBalancer, Balancer!Continue
<1>2. /\ balancerRegistered' \in Seq(BalancerKinds)
      /\ \A i \in DOMAIN balancerRegistered' :
           \/ i \in DOMAIN balancerRegistered
                /\ balancerRegistered'[i] = balancerRegistered[i]
           \/ balancerRegistered'[i] = "LoadBalancer"
  BY <1>1, AppendFacts DEF BalancerKinds, BInv, Balancer!TypeOK
<1>3. Balancer!TypeOK'
  BY <1>1, <1>2 DEF BInv, Balancer!TypeOK, BalancerKinds
<1>4. BalancerPassed' /\ BalancerSoFar'
  BY <1>1, <1>2 DEF BInv, BalancerPassed, BalancerSoFar, BothListeners
<1>5. Listens'
  BY <1>1, BeforeListening
<1> QED BY <1>3, <1>4, <1>5 DEF BInv

LEMMA RegisterTargetGroupInv == BInv /\ Balancer!RegisterTargetGroup => BInv'
<1> SUFFICES ASSUME BInv, Balancer!RegisterTargetGroup PROVE BInv' OBVIOUS
<1>1. CASE BothGroups
  BY <1>1, BalancerThrowKeeps
  DEF Balancer!RegisterTargetGroup, Balancer!BothGroupsGiven, BothGroups
<1>2. CASE ~BothGroups
  <2>1. /\ balancerStep = "targetGroup" /\ balancerStep' = "listening"
        /\ balancerRegistered' = Append(balancerRegistered, "TargetGroup")
        /\ targetGroup' = Balancer!DefaultTargetGroup
        /\ UNCHANGED <<balancerRequest, security, listening>>
    BY <1>2
    DEF Balancer!RegisterTargetGroup, Balancer!Continue, Balancer!BothGroupsGiven, BothGroups
  <2>2. balancerRegistered' \in Seq(BalancerKinds)
    BY <2>1, AppendFacts DEF BalancerKinds, BInv, Balancer!TypeOK
  <2>3. Balancer!TypeOK'
    BY <2>1, <2>2, TargetGroupType
    DEF BInv, Balancer!TypeOK, BalancerKinds, Balancer!Optional
  <2>4. Balancer!DefaultTargetGroup' = Balancer!DefaultTargetGroup
    BY <2>1
    DEF Balancer!DefaultTargetGroup, Balancer!GetDefaultProtocol, Balancer!IsApplication
  <2>5. BalancerPassed' /\ BalancerSoFar'
    BY <1>2, <2>1, <2>4
    DEF BInv, BalancerPassed, BalancerSoFar, BothListeners, BothGroups
  <2>6. Listens'
    BY <2>1, BeforeListening
  <2> QED BY <2>3, <2>5, <2>6 DEF BInv
<1> QED BY <1>1, <1>2

-----------------------------------------------------------------------------
(* The listeners.                                                          *)
LEMMA ListeningPasses ==
  ASSUME BInv, balancerStep = "listening", balancerStep' \in {"listening", "done"},
         UNCHANGED <<balancerRequest, security, targetGroup>>,
         \/ UNCHANGED balancerRegistered
         \/ balancerRegistered' = Append(balancerRegistered, "Listener")
  PROVE  /\ balancerRegistered' \in Seq(BalancerKinds)
         /\ BalancerPassed' /\ BalancerSoFar'
         /\ \A given : ListenerFor(given)' = ListenerFor(given)
<1>1. balancerRegistered' \in Seq(BalancerKinds)
  BY AppendFacts DEF BalancerKinds, BInv, Balancer!TypeOK
<1>2. Balancer!DefaultTargetGroup' = Balancer!DefaultTargetGroup
  BY DEF Balancer!DefaultTargetGroup, Balancer!GetDefaultProtocol, Balancer!IsApplication
<1>3. BalancerPassed' /\ BalancerSoFar'
  BY <1>2 DEF BInv, BalancerPassed, BalancerSoFar, BothListeners, BothGroups
<1>4. ASSUME NEW given PROVE ListenerFor(given)' = ListenerFor(given)
  BY DEF ListenerFor, Balancer!LoneListenerDefaults, Balancer!ListenerDefaults,
         Balancer!IsApplication, Balancer!GetDefaultProtocol
<1> QED BY <1>1, <1>3, <1>4

Listeners == [port : Ports, protocol : Balancer!Protocols, toDefaultGroup : BOOLEAN]

LEMMA RegisterListenerInv == BInv /\ Balancer!RegisterListener => BInv'
<1> SUFFICES ASSUME BInv, Balancer!RegisterListener PROVE BInv' OBVIOUS
<1>1. /\ balancerStep = "listening" /\ balancerStep' = "done"
      /\ balancerRequest.listeners = Undefined
      /\ listening' = <<ListenerFor(balancerRequest.listener)>>
      /\ balancerRegistered' = Append(balancerRegistered, "Listener")
      /\ UNCHANGED <<balancerRequest, security, targetGroup>>
  BY DEF Balancer!RegisterListener, Balancer!Continue, ListenerFor
<1>2. balancerRequest \in BalancerRequests
  BY DEF BInv, Balancer!TypeOK
<1>3. ListenerFor(balancerRequest.listener) \in Listeners
  BY <1>1, <1>2, ListenerForType DEF Listeners
<1>4. /\ balancerRegistered' \in Seq(BalancerKinds)
      /\ BalancerPassed' /\ BalancerSoFar'
      /\ \A given : ListenerFor(given)' = ListenerFor(given)
  BY <1>1, ListeningPasses
<1>5. Balancer!TypeOK'
  <2>1. listening' \in Seq(Listeners)
    BY <1>1, <1>3
  <2> QED BY <1>1, <1>4, <2>1 DEF BInv, Balancer!TypeOK, Listeners, BalancerKinds
<1>6. Listens'
  <2>1. Len(listening') = 1 /\ DOMAIN listening' = {1}
          /\ listening'[1] = ListenerFor(balancerRequest.listener)
    BY <1>1
  <2>2. Balancer!InputOf(1)' = balancerRequest.listener
    BY <1>1 DEF Balancer!InputOf
  <2>3. listening'[1] = ListenerFor(Balancer!InputOf(1))'
    BY <1>4, <2>1, <2>2
  <2> QED BY <1>1, <2>1, <2>3 DEF Listens
<1> QED BY <1>4, <1>5, <1>6 DEF BInv

LEMMA RegisterNextListenerInv == BInv /\ Balancer!RegisterNextListener => BInv'
<1> SUFFICES ASSUME BInv, Balancer!RegisterNextListener PROVE BInv' OBVIOUS
<1>1. /\ balancerStep = "listening"
      /\ balancerRequest.listeners # Undefined
      /\ UNCHANGED <<balancerRequest, security, targetGroup>>
  BY DEF Balancer!RegisterNextListener, Balancer!Continue
<1>2. balancerRequest \in BalancerRequests /\ listening \in Seq(Listeners)
  BY DEF BInv, Balancer!TypeOK, Listeners
<1>3. ASSUME NEW k PROVE Balancer!InputOf(k)' = Balancer!InputOf(k)
  BY <1>1 DEF Balancer!InputOf
<1>4. CASE Len(listening) = Len(balancerRequest.listeners)
  <2>1. balancerStep' = "done" /\ UNCHANGED <<balancerRegistered, listening>>
    BY <1>4 DEF Balancer!RegisterNextListener, Balancer!Continue
  <2>2. /\ BalancerPassed' /\ BalancerSoFar'
        /\ \A given : ListenerFor(given)' = ListenerFor(given)
    BY <1>1, <2>1, ListeningPasses
  <2>3. Balancer!TypeOK'
    BY <1>1, <2>1 DEF BInv, Balancer!TypeOK
  <2>4. Listens'
    BY <1>1, <1>3, <2>1, <2>2 DEF BInv, Listens
  <2> QED BY <2>2, <2>3, <2>4 DEF BInv
<1>5. CASE Len(listening) # Len(balancerRequest.listeners)
  <2> DEFINE listener == balancerRequest.listeners[Len(listening) + 1]
  <2>1. /\ listening' = Append(listening, ListenerFor(listener))
        /\ balancerRegistered' = Append(balancerRegistered, "Listener")
        /\ UNCHANGED balancerStep
    BY <1>1, <1>5 DEF Balancer!RegisterNextListener, ListenerFor
  <2>2. /\ balancerRegistered' \in Seq(BalancerKinds)
        /\ BalancerPassed' /\ BalancerSoFar'
        /\ \A given : ListenerFor(given)' = ListenerFor(given)
    BY <1>1, <2>1, ListeningPasses
  <2>3. balancerRequest.listeners \in Seq(Balancer!ListenerInput)
    BY <1>1, <1>2, BalancerRequestFacts DEF Optional
  <2>4. Len(listening) + 1 <= Len(balancerRequest.listeners)
    BY <1>1, <1>2, <1>5, <2>3 DEF BInv, Listens
  <2>5. listener \in Balancer!ListenerInput
    BY <1>2, <2>3, <2>4
  <2>6. ListenerFor(listener) \in Listeners
    BY <1>1, <1>2, <2>5, ListenerForType DEF Listeners
  <2> HIDE DEF listener
  <2>7. listening' \in Seq(Listeners) /\ Len(listening') = Len(listening) + 1
    BY <1>2, <2>1, <2>6
  <2>8. Balancer!TypeOK'
    BY <1>1, <2>1, <2>2, <2>7 DEF BInv, Balancer!TypeOK, Listeners, BalancerKinds
  <2>9. ASSUME NEW k \in DOMAIN listening'
        PROVE  listening'[k] = ListenerFor(Balancer!InputOf(k))'
    <3>1. CASE k \in DOMAIN listening
      <4>1. listening'[k] = listening[k]
        BY <1>2, <2>1, <2>6, <3>1
      <4> QED BY <1>3, <2>2, <3>1, <4>1 DEF BInv, Listens
    <3>2. CASE k \notin DOMAIN listening
      <4>1. k = Len(listening) + 1 /\ listening'[k] = ListenerFor(listener)
        BY <1>2, <2>1, <2>6, <2>9, <3>2
      <4>2. Balancer!InputOf(k) = listener
        BY <1>1, <4>1 DEF Balancer!InputOf, listener
      <4> QED BY <1>3, <2>2, <4>1, <4>2
    <3> QED BY <3>1, <3>2
  <2>10. Listens'
    BY <1>1, <2>1, <2>4, <2>7, <2>9 DEF Listens
  <2> QED BY <2>2, <2>8, <2>10 DEF BInv
<1> QED BY <1>4, <1>5

LEMMA BalancerUnchanged == BInv /\ UNCHANGED ofBalancer => BInv'
<1> SUFFICES ASSUME BInv, UNCHANGED ofBalancer PROVE BInv' OBVIOUS
<1>1. UNCHANGED <<balancerRequest, balancerStep, balancerRegistered, security, targetGroup,
                  listening>>
  BY DEF ofBalancer
<1>2. Balancer!DefaultTargetGroup' = Balancer!DefaultTargetGroup
  BY <1>1
  DEF Balancer!DefaultTargetGroup, Balancer!GetDefaultProtocol, Balancer!IsApplication
<1>3. ASSUME NEW given PROVE ListenerFor(given)' = ListenerFor(given)
  BY <1>1
  DEF ListenerFor, Balancer!LoneListenerDefaults, Balancer!ListenerDefaults,
      Balancer!IsApplication, Balancer!GetDefaultProtocol
<1>4. ASSUME NEW k PROVE Balancer!InputOf(k)' = Balancer!InputOf(k)
  BY <1>1 DEF Balancer!InputOf
<1>5. Listens'
  BY <1>1, <1>3, <1>4 DEF BInv, Listens
<1> QED
  BY <1>1, <1>2, <1>5
  DEF BInv, Balancer!TypeOK, BalancerPassed, BalancerSoFar, BothListeners, BothGroups

LEMMA BalancerNextInv == BInv /\ Balancer!Next => BInv'
BY ChecksKeep, ChooseSecurityGroupInv, RegisterBalancerInv, RegisterTargetGroupInv,
   RegisterListenerInv, RegisterNextListenerInv
DEF Balancer!Next

-----------------------------------------------------------------------------
(* What the balancer's invariant implies.                                  *)
LEMMA OneSubnetArgument ==
  ASSUME BInv, balancerStep = "done"
  PROVE  Balancer!Cardinality(balancerRequest.subnetArgs) <= 1
<1>1. balancerRequest.subnetArgs \subseteq {"subnets", "subnetIds", "subnetMappings"}
  BY BalancerRequestFacts DEF BInv, Balancer!TypeOK, Balancer!SubnetArgs
<1>2. IsFiniteSet({"subnets", "subnetIds", "subnetMappings"})
  <2>1. IsFiniteSet({"subnets"})
    BY FS_Singleton
  <2>2. IsFiniteSet({"subnets"} \cup {"subnetIds"})
    BY <2>1, FS_AddElement
  <2>3. IsFiniteSet(({"subnets"} \cup {"subnetIds"}) \cup {"subnetMappings"})
    BY <2>2, FS_AddElement
  <2>4. {"subnets", "subnetIds", "subnetMappings"} =
          ({"subnets"} \cup {"subnetIds"}) \cup {"subnetMappings"}
    OBVIOUS
  <2> QED BY <2>3, <2>4
<1>3. Cardinality(balancerRequest.subnetArgs) \in Nat
  BY <1>1, <1>2, FS_Subset, FS_CardinalityType
<1>4. ~(Cardinality(balancerRequest.subnetArgs) > 1)
  BY SameCardinality DEF BInv, BalancerPassed
<1>5. Cardinality(balancerRequest.subnetArgs) <= 1
  BY <1>3, <1>4
<1> QED BY <1>5, SameCardinality

(* The input of a listener is one that was given, or none.                 *)
LEMMA InputFacts ==
  ASSUME BInv, NEW k \in DOMAIN listening
  PROVE  /\ Balancer!InputOf(k) \in Optional(Balancer!ListenerInput)
         /\ balancerRequest.listeners = Undefined =>
              Balancer!InputOf(k) = balancerRequest.listener
         /\ listening[k] = ListenerFor(Balancer!InputOf(k))
<1>1. CASE balancerRequest.listeners = Undefined
  BY <1>1, BalancerRequestFacts DEF BInv, Balancer!TypeOK, Listens, Balancer!InputOf
<1>2. CASE balancerRequest.listeners # Undefined
  <2>1. balancerRequest.listeners \in Seq(Balancer!ListenerInput)
    BY <1>2, BalancerRequestFacts DEF BInv, Balancer!TypeOK, Optional
  <2>2. /\ DOMAIN listening = 1..Len(listening) /\ Len(listening) \in Nat
        /\ Len(listening) <= Len(balancerRequest.listeners)
    BY <1>2 DEF BInv, Balancer!TypeOK, Listens
  <2>3. k \in 1..Len(balancerRequest.listeners)
    BY <2>1, <2>2
  <2>4. Balancer!InputOf(k) \in Balancer!ListenerInput
    BY <1>2, <2>1, <2>3 DEF Balancer!InputOf
  <2> QED BY <1>2, <2>4 DEF BInv, Listens, Optional
<1> QED BY <1>1, <1>2

LEMMA OverriddenKeeps ==
  ASSUME NEW defaults, NEW given, given # Undefined
  PROVE  LET listener == Balancer!Listener(defaults, given)
         IN  /\ given.port \in {Undefined, listener.port}
             /\ given.protocol \in {Undefined, listener.protocol}
BY DEF Balancer!Listener, Balancer!Overridden, Balancer!OrElse

LEMMA GroupAgrees == BInv => Balancer!ListenerAndGroupAgree
<1> SUFFICES ASSUME BInv, balancerStep = "done", Balancer!IsApplication,
                    balancerRequest.listeners = Undefined,
                    balancerRequest.defaultTargetGroup = Undefined
             PROVE  [port |-> listening[1].port, protocol |-> listening[1].protocol]
                      = targetGroup
  BY DEF Balancer!ListenerAndGroupAgree
<1> DEFINE given == balancerRequest.listener
           defaults == Balancer!GetListenerProtocol(given,
                                                    balancerRequest.defaultTargetGroupPort)
<1>1. Balancer!GetDefaultProtocol = defaults
  BY DefaultProtocolFacts DEF BInv, Balancer!TypeOK
<1>2. targetGroup = defaults
  BY <1>1 DEF BInv, BalancerPassed, Balancer!DefaultTargetGroup, Balancer!Overridden
<1>3. 1 \in DOMAIN listening
  BY DEF BInv, Listens, Balancer!TypeOK
<1>4. listening[1] = Balancer!Listener(defaults, given)
  BY <1>1, <1>3, InputFacts DEF ListenerFor, Balancer!LoneListenerDefaults
<1>5. listening[1].port = defaults.port /\ listening[1].protocol = defaults.protocol
  BY <1>4
  DEF Balancer!Listener, Balancer!Overridden, Balancer!OrElse, Balancer!GetListenerProtocol
<1> QED BY <1>2, <1>5 DEF Balancer!GetListenerProtocol

(* What a listener of an application balancer falls back on was computed   *)
(* from its own input.                                                     *)
LEMMA HttpsFollows == BInv => Balancer!HttpsIsOn443
<1> SUFFICES ASSUME BInv, Balancer!IsApplication, NEW k \in DOMAIN listening,
                    Balancer!InputOf(k) # Undefined,
                    \/ /\ Balancer!InputOf(k).port = 443
                       /\ Balancer!InputOf(k).protocol = Undefined
                    \/ /\ Balancer!InputOf(k).port = Undefined
                       /\ Balancer!InputOf(k).protocol = "HTTPS"
             PROVE  listening[k].port = 443 /\ listening[k].protocol = "HTTPS"
  BY DEF Balancer!HttpsIsOn443
<1> DEFINE given == Balancer!InputOf(k)
<1>1. Undefined # 443 /\ Undefined # "HTTPS"
  BY ContainerAssumption, PortsAssumption, BalancerRequestAssumption DEF Balancer!Protocols
<1>2. PICK port : listening[k] =
                    Balancer!Listener(Balancer!GetListenerProtocol(given, port), given)
  <2>1. balancerRequest.listeners = Undefined =>
          Balancer!LoneListenerDefaults =
            Balancer!GetListenerProtocol(given, balancerRequest.defaultTargetGroupPort)
    BY InputFacts, DefaultProtocolFacts
    DEF BInv, Balancer!TypeOK, Balancer!LoneListenerDefaults
  <2> QED BY <2>1, InputFacts DEF ListenerFor, Balancer!ListenerDefaults
<1> QED
  BY <1>1, <1>2
  DEF Balancer!Listener, Balancer!Overridden, Balancer!OrElse,
      Balancer!GetListenerProtocol, Balancer!PortToProtocol, Balancer!ProtocolToPort

(* Where defaultTargetGroupPort is looked at, it is the fallback beside    *)
(* the lead listener.                                                      *)
LEMMA LeadIsConsulted ==
  ASSUME balancerRequest \in BalancerRequests, Balancer!IsApplication,
         Balancer!PortIsConsulted
  PROVE  Balancer!GetDefaultProtocol =
           Balancer!GetListenerProtocol(Balancer!LeadListener,
                                        balancerRequest.defaultTargetGroupPort)
<1>1. CASE balancerRequest.listeners = Undefined
  BY <1>1, DefaultProtocolFacts DEF Balancer!LeadListener
<1>2. CASE balancerRequest.listeners # Undefined
  <2>1. balancerRequest.listeners \in Seq(Balancer!ListenerInput)
    BY <1>2, BalancerRequestFacts DEF Optional
  <2>2. Len(balancerRequest.listeners) # 1
    BY <1>2 DEF Balancer!PortIsConsulted
  <2>3. CASE balancerRequest.listeners = <<>>
    <3>1. Len(balancerRequest.listeners) = 0
      BY <2>3
    <3>2. Balancer!LeadListener = Undefined
      BY <1>2, <2>3 DEF Balancer!LeadListener
    <3> QED BY <1>2, <3>1, <3>2 DEF Balancer!GetDefaultProtocol
  <2>4. CASE balancerRequest.listeners # <<>>
    <3>1. Len(balancerRequest.listeners) \notin {0, 1}
      BY <2>1, <2>2, <2>4
    <3>2. Balancer!LeadListener = balancerRequest.listeners[1]
      BY <1>2, <2>4 DEF Balancer!LeadListener
    <3> QED BY <1>2, <3>1, <3>2 DEF Balancer!GetDefaultProtocol
  <2> QED BY <2>3, <2>4
<1> QED BY <1>1, <1>2

LEMMA ArgumentsAreKept == BInv => Balancer!GivenIsKept
<1> SUFFICES ASSUME BInv, balancerStep = "done" PROVE Balancer!GivenIsKept
  BY DEF Balancer!GivenIsKept
<1>1. ASSUME NEW k \in DOMAIN listening, Balancer!InputOf(k) # Undefined
      PROVE  /\ Balancer!InputOf(k).port \in {Undefined, listening[k].port}
             /\ Balancer!InputOf(k).protocol \in {Undefined, listening[k].protocol}
  BY <1>1, InputFacts, OverriddenKeeps DEF ListenerFor
<1>2. balancerRequest.listener # Undefined =>
        Len(listening) = 1 /\ Balancer!InputOf(1) = balancerRequest.listener
  BY DEF BInv, BalancerPassed, BothListeners, Listens, Balancer!InputOf
<1>3. balancerRequest.defaultTargetGroup # Undefined =>
        /\ balancerRequest.defaultTargetGroup.port \in {Undefined, targetGroup.port}
        /\ balancerRequest.defaultTargetGroupPort = Undefined
  BY DEF BInv, BalancerPassed, BothGroups, Balancer!DefaultTargetGroup,
         Balancer!Overridden, Balancer!OrElse
<1>4. ASSUME balancerRequest.defaultTargetGroupPort # Undefined, Balancer!PortIsConsulted
      PROVE  targetGroup.port = balancerRequest.defaultTargetGroupPort
  <2> DEFINE port == balancerRequest.defaultTargetGroupPort
  <2>1. targetGroup = IF Balancer!IsApplication THEN Balancer!GetDefaultProtocol
                      ELSE [port |-> port, protocol |-> "TCP"]
    BY <1>4
    DEF BInv, BalancerPassed, BothGroups, Balancer!DefaultTargetGroup,
        Balancer!Overridden, Balancer!OrElse
  <2>2. CASE Balancer!IsApplication
    <3>1. ~Balancer!StatesEndpoint(Balancer!LeadListener)
      BY <1>4, <2>2 DEF Balancer!PortIsConsulted
    <3>2. Balancer!GetDefaultProtocol =
            Balancer!GetListenerProtocol(Balancer!LeadListener, port)
      BY <1>4, <2>2, LeadIsConsulted DEF BInv, Balancer!TypeOK
    <3>3. Balancer!GetListenerProtocol(Balancer!LeadListener, port).port = port
      BY <1>4, <3>1
      DEF Balancer!GetListenerProtocol, Balancer!StatesEndpoint, Balancer!OrElse
    <3> QED BY <2>1, <2>2, <3>2, <3>3
  <2> QED BY <2>1, <2>2
<1> QED BY <1>1, <1>2, <1>3, <1>4, OneSubnetArgument DEF Balancer!GivenIsKept

LEMMA LateRefusal == BInv => Balancer!LateRefusalIsTheGroups
BY DEF BInv, BalancerSoFar, BothGroups, Balancer!BothGroupsGiven,
       Balancer!LateRefusalIsTheGroups

-----------------------------------------------------------------------------
(* Both, with the port of the balancer's group: it is known only once the  *)
(* group has been registered, and from then on the group stays as it is.   *)
GroupIsBalancers ==
  /\ "default" \notin DOMAIN request.ports
  /\ "default" \in DOMAIN groupPort =>
       /\ balancerStep \in {"listening", "done"}
       /\ groupPort["default"] = targetGroup.port

CInv == SInv /\ BInv /\ GroupIsBalancers

LEMMA ComposedInitInv == ComposedInit => CInv
<1> SUFFICES ASSUME ComposedInit PROVE CInv OBVIOUS
<1>1. PICK p \in Programs : balancerRequest = p[1] /\ request = p[2]
  BY DEF ComposedInit
<1>2. balancerRequest \in BalancerRequests
  BY <1>1 DEF BalancerRequests
<1>3. "default" \notin DOMAIN request.ports /\ "default" \notin DOMAIN groupPort
  BY <1>1, ProgramsAssumption DEF ComposedInit, Init
<1> QED
  BY <1>2, <1>3, ServiceInit, BalancerInit DEF ComposedInit, CInv, GroupIsBalancers

LEMMA ServiceKeepsGroup ==
  ASSUME CInv, UNCHANGED <<request, groupPort, ofBalancer>>
  PROVE  GroupIsBalancers'
BY DEF CInv, GroupIsBalancers, ofBalancer

LEMMA ConstructBalancerInv == CInv /\ ConstructBalancer => CInv'
<1> SUFFICES ASSUME CInv, ConstructBalancer PROVE CInv' OBVIOUS
<1>1. UNCHANGED <<request, groupPort>> /\ SInv'
  BY ServiceUnchanged DEF CInv, ConstructBalancer, vars, program, engine
<1>2. BInv'
  BY BalancerNextInv DEF CInv, ConstructBalancer
<1>3. balancerStep \in {"listening", "done"} =>
        balancerStep' \in {"listening", "done"} /\ UNCHANGED targetGroup
  BY DEF ConstructBalancer, Balancer!Next, Balancer!ChooseSubnets, Balancer!CheckListeners,
         Balancer!ChooseSecurityGroup, Balancer!RegisterBalancer,
         Balancer!RegisterTargetGroup, Balancer!RegisterListener,
         Balancer!RegisterNextListener, Balancer!Continue
<1> QED BY <1>1, <1>2, <1>3 DEF CInv, GroupIsBalancers

LEMMA ServiceStepInv ==
  CInv /\ (ConstructService \/ CreateServiceResource) => CInv'
<1> SUFFICES ASSUME CInv, ConstructService \/ CreateServiceResource PROVE CInv' OBVIOUS
<1>1. UNCHANGED ofBalancer /\ BInv'
  BY BalancerUnchanged DEF CInv, ConstructService, CreateServiceResource
<1>2. CASE ConstructService
  <2>1. SInv'
    BY <1>2, ConstructInv DEF CInv, ConstructService
  <2>2. UNCHANGED <<request, groupPort>>
    BY <1>2
    DEF ConstructService, Construct, CheckArguments, CheckContainers, RegisterLogGroup,
        RegisterTaskRole, RegisterExecutionRole, RegisterTaskDefinition, CheckIdentifier,
        CheckCapacity, RegisterService, Throw, Continue, engine
  <2> QED BY <1>1, <2>1, <2>2, ServiceKeepsGroup DEF CInv
<1>3. CASE CreateServiceResource
  <2>1. PICK r \in Kinds : Create(r) \/ Refuse(r)
    BY <1>3 DEF CreateServiceResource, Engine
  <2>2. SInv'
    BY <2>1, CreateInv, RefuseInv DEF CInv
  <2>3. UNCHANGED <<request, groupPort>>
    BY <2>1 DEF Create, Refuse, program
  <2> QED BY <1>1, <2>2, <2>3, ServiceKeepsGroup DEF CInv
<1> QED BY <1>2, <1>3

LEMMA LearnOtherGroupInv == CInv /\ LearnOtherGroup => CInv'
<1> SUFFICES ASSUME CInv, LearnOtherGroup PROVE CInv' OBVIOUS
<1>1. UNCHANGED ofBalancer /\ BInv'
  BY BalancerUnchanged DEF CInv, LearnOtherGroup
<1>2. PICK g \in DOMAIN request.ports : TargetGroupIsKnown(g, request.ports[g])
  BY DEF LearnOtherGroup, OtherGroups
<1>3. g \in TargetGroups /\ request.ports[g] \in Optional(Ports)
  BY RequestFacts DEF CInv, SInv
<1>4. SInv'
  BY <1>2, <1>3, GroupIsKnownInv DEF CInv
<1>5. /\ UNCHANGED request
      /\ "default" \in DOMAIN groupPort' => "default" \in DOMAIN groupPort
      /\ "default" \in DOMAIN groupPort' => groupPort'["default"] = groupPort["default"]
  BY <1>2 DEF TargetGroupIsKnown, program, CInv, GroupIsBalancers
<1> QED BY <1>1, <1>4, <1>5 DEF CInv, GroupIsBalancers, ofBalancer

LEMMA BalancerEngineInv == CInv /\ BalancerEngine => CInv'
<1> SUFFICES ASSUME CInv, BalancerEngine PROVE CInv' OBVIOUS
<1>1. PICK i \in DOMAIN balancerRegistered : CreateBalancerResource(i)
  BY DEF BalancerEngine
<1>2. UNCHANGED ofBalancer /\ BInv'
  BY <1>1, BalancerUnchanged DEF CInv, CreateBalancerResource
<1>3. CASE balancerRegistered[i] = "TargetGroup"
  <2>1. TargetGroupIsKnown("default", targetGroup.port) /\ targetGroup.port # Undefined
    BY <1>1, <1>3 DEF CreateBalancerResource
  <2>2. balancerStep \in {"listening", "done"}
    BY <1>3 DEF CInv, BInv, BalancerSoFar
  <2>3. targetGroup \in Balancer!Endpoint
    BY <2>2, TargetGroupType DEF CInv, BInv, BalancerPassed, Balancer!TypeOK
  <2>4. targetGroup.port \in Optional(Ports) /\ "default" \in TargetGroups
    BY <2>3, PortsAssumption DEF Balancer!Endpoint, Balancer!Optional, Optional
  <2>5. SInv'
    BY <2>1, <2>4, GroupIsKnownInv DEF CInv
  <2>6. UNCHANGED request /\ groupPort'["default"] = targetGroup.port
    BY <2>1 DEF TargetGroupIsKnown, program
  <2> QED BY <1>2, <2>2, <2>5, <2>6 DEF CInv, GroupIsBalancers, ofBalancer
<1>4. CASE balancerRegistered[i] # "TargetGroup"
  <2>1. UNCHANGED vars
    BY <1>1, <1>4 DEF CreateBalancerResource
  <2>2. SInv' /\ UNCHANGED <<request, groupPort>>
    BY <2>1, ServiceUnchanged DEF CInv, vars, program, engine
  <2> QED BY <1>2, <2>2, ServiceKeepsGroup DEF CInv
<1> QED BY <1>3, <1>4

LEMMA ComposedInv == ComposedSpec => []CInv
<1>1. ComposedInit => CInv
  BY ComposedInitInv
<1>2. CInv /\ [ComposedNext]_composedVars => CInv'
  <2> SUFFICES ASSUME CInv, [ComposedNext]_composedVars PROVE CInv' OBVIOUS
  <2>1. CASE ComposedNext
    BY <2>1, ConstructBalancerInv, ServiceStepInv, LearnOtherGroupInv, BalancerEngineInv
    DEF ComposedNext
  <2>2. CASE UNCHANGED composedVars
    <3>1. UNCHANGED vars /\ UNCHANGED ofBalancer
      BY <2>2 DEF composedVars
    <3>2. SInv' /\ BInv' /\ UNCHANGED <<request, groupPort>>
      BY <3>1, ServiceUnchanged, BalancerUnchanged DEF CInv, vars, program, engine
    <3> QED BY <3>1, <3>2, ServiceKeepsGroup DEF CInv
  <2> QED BY <2>1, <2>2
<1> QED BY <1>1, <1>2, PTL DEF ComposedSpec

(* The balancer's group reaches a service with the port it was made with.  *)
LEMMA OnTheGroupsPort == CInv => AttachedOnGroupsPort
<1> SUFFICES ASSUME CInv, service # Undefined, service.loadBalancers # Undefined,
                    NEW b \in service.loadBalancers, b.targetGroup = "default"
             PROVE  b.containerPort = targetGroup.port
  BY DEF AttachedOnGroupsPort
<1>1. /\ Task # Undefined
      /\ service.loadBalancers = ComputeLoadBalancers
      /\ GroupsRead \subseteq DOMAIN groupPort
  BY AttachedFacts DEF CInv
<1>2. PICK n \in DOMAIN NormalizeContainers :
        \E m \in Mappings(n) :
          /\ PortOf(m) # Undefined
          /\ b = [containerName |-> n, containerPort |-> PortOf(m),
                  targetGroup |-> m.targetGroup]
  BY <1>1 DEF ComputeLoadBalancers
<1>3. PICK m \in Mappings(n) :
        /\ PortOf(m) # Undefined
        /\ b = [containerName |-> n, containerPort |-> PortOf(m),
                targetGroup |-> m.targetGroup]
  BY <1>2
<1>4. m.targetGroup = "default" /\ "default" # Undefined
  BY <1>3 DEF PortOf
<1>5. "default" \in GroupsRead /\ PortOf(m) = groupPort["default"]
  BY <1>1, <1>2, <1>4 DEF GroupsRead, PortOf
<1> QED BY <1>1, <1>3, <1>5 DEF CInv, GroupIsBalancers

-----------------------------------------------------------------------------
(* The listeners and the default target group are filled in by merges of   *)
(* their own (getListenerProtocol, getDefaultProtocol and the spreads of   *)
(* ApplicationLoadBalancer), and agree for every balancer there is: on one *)
(* protocol and port, on HTTPS at 443, with what listeners and group were  *)
(* given, and with defaultTargetGroupPort wherever the code looks at it.   *)
THEOREM EndpointsAgreeAlways == ComposedSpec => []EndpointsAgree
<1>1. CInv => EndpointsAgree
  BY GroupAgrees, HttpsFollows, ArgumentsAreKept DEF CInv, BInv, EndpointsAgree
<1> QED BY <1>1, ComposedInv, PTL

(* A throw of either constructor, an apply that throws or a creation that  *)
(* AWS refuses leaves no service, no target group and no listener that the *)
(* refused arguments asked for, wherever in the order it happens.          *)
THEOREM RefusalsLeaveNothingServing == ComposedSpec => []RefusalsAreClean
<1>1. CInv => RefusalsAreClean
  BY LateRefusal DEF CInv, SInv, RefusalsAreClean
<1> QED BY <1>1, ComposedInv, PTL

(* The service, computed in an apply of its own when the ports of all its  *)
(* groups are known, is attached to every group its task names that has a  *)
(* port, under the containers the task has, on the port the group was made *)
(* with, and has one way to launch.                                        *)
THEOREM ServiceFitsTaskAndGroups == ComposedSpec => []ServiceIsWellFormed
<1>1. CInv => ServiceIsWellFormed
  BY Attached, OnTheGroupsPort, LaunchedOneWay DEF CInv, SInv, ServiceIsWellFormed
<1> QED BY <1>1, ComposedInv, PTL

(* The two functions that read a port mapping, getMappingInputs for the    *)
(* task definition and computeLoadBalancers for the service, come to ports *)
(* that agree and keep what the mapping states.                            *)
THEOREM MappingsAgree == ComposedSpec => []PortsAgree
<1>1. CInv => PortsAgree
  BY PortsFollow DEF CInv
<1> QED BY <1>1, ComposedInv, PTL

-----------------------------------------------------------------------------
(* The size of a Fargate task.  The table is searched by memory and then   *)
(* by vCPUs, not by price.  That this still finds the cheapest rests on    *)
(* the table's shape (Staircase): where a smaller number of vCPUs comes    *)
(* with more memory, it also comes with the memory in question.            *)

(* The rows of the table, for the provers.                                 *)
LEMMA TableRows ==
  ASSUME NEW c
  PROVE  c \in AllConfigs <=>
           \/ c \in Configs(1, {1, 2, 4})
           \/ c \in Configs(2, GBs(1, 4))
           \/ c \in Configs(4, GBs(2, 8))
           \/ c \in Configs(8, GBs(4, 16))
           \/ c \in Configs(16, GBs(8, 30))
           \/ c \in Configs(32, GBs(16, 60))
           \/ c \in Configs(64, GBs(32, 120))
           \/ c \in Configs(128, {120, 240, 488})
  BY DEF AllConfigs

LEMMA TableType ==
  ASSUME NEW c \in AllConfigs
  PROVE  /\ c \in [cpu : Nat, memory : Nat]
         /\ c.cpu <= MaxCpu
         /\ c.memory <= MaxMemory
  BY TableRows DEF Configs, GBs, MaxCpu, MaxMemory

LEMMA Staircase ==
  ASSUME NEW c \in AllConfigs, NEW d \in AllConfigs,
         d.cpu < c.cpu, c.memory < d.memory
  PROVE  [cpu |-> d.cpu, memory |-> c.memory] \in AllConfigs
  BY TableRows DEF Configs, GBs

LEMMA Largest == [cpu |-> MaxCpu, memory |-> MaxMemory] \in AllConfigs
  BY TableRows DEF Configs, MaxCpu, MaxMemory

(* The first configuration that fits is the cheapest one that does.        *)
LEMMA FirstIsCheapest ==
  ASSUME cpuUnits \in Nat, memoryMB \in Nat,
         NEW c, IsFirst(c),
         NEW d \in AllConfigs, Fits(d)
  PROVE  Cost(c) <= Cost(d)
<1> USE TableType
<1>1. c \in AllConfigs /\ Fits(c) /\ ~Before(d, c)
  BY DEF IsFirst
<1>2. c.cpu \in Nat /\ c.memory \in Nat /\ d.cpu \in Nat /\ d.memory \in Nat
  BY <1>1
<1>3. CASE d.memory = c.memory
  BY <1>1, <1>2, <1>3 DEF Before, Cost
<1>4. CASE d.memory > c.memory /\ d.cpu >= c.cpu
  BY <1>2, <1>4 DEF Cost
<1>5. CASE d.memory > c.memory /\ d.cpu < c.cpu
  <2> DEFINE e == [cpu |-> d.cpu, memory |-> c.memory]
  <2>1. e \in AllConfigs
    BY <1>1, <1>2, <1>5, Staircase
  <2>2. Fits(e)
    BY <1>1, <1>2 DEF Fits, CpuUnits, MemoryMB
  <2>3. Before(e, c)
    BY <1>2, <1>5 DEF Before
  <2>4. QED
    BY <1>1, <2>1, <2>2, <2>3 DEF IsFirst
<1>6. d.memory >= c.memory
  BY <1>1, <1>2 DEF Before
<1>7. QED
  BY <1>2, <1>3, <1>4, <1>5, <1>6

-----------------------------------------------------------------------------
LEMMA AmountType ==
  ASSUME NEW x \in OrNotGiven(Nat)
  PROVE  Amount(x) \in Nat
BY DEF Amount, Given, OrNotGiven

LEMMA MemoryOfType ==
  ASSUME NEW c \in ContainerInput
  PROVE  MemoryOf(c) \in Nat
BY AmountType DEF MemoryOf, ContainerInput, Given, OrNotGiven

(* The inductive invariant: the sums have room for every container added   *)
(* so far, and once the phase says so the choice has been made from the    *)
(* sums of all of them.                                                    *)
Holds(k) ==
  /\ Amount(taskArgs.containers[k].cpu) <= cpuUnits
  /\ MemoryOf(taskArgs.containers[k]) <= memoryMB

SizingInv ==
  /\ SizingTypeOK
  /\ \A k \in 1..added : Holds(k)
  /\ phase # "adding" => added = Len(taskArgs.containers)
  /\ phase \in {"adding", "refused"} => config = NotGiven
  /\ phase \in {"sized", "registered"} => IsFirst(config)
  /\ phase = "refused" => ExceedsMaximum

LEMMA ContainersTyped ==
  ASSUME taskArgs \in TaskArgs
  PROVE  /\ taskArgs \in SizingRequest
         /\ Len(taskArgs.containers) \in Nat
         /\ DOMAIN taskArgs.containers = 1..Len(taskArgs.containers)
         /\ \A k \in 1..Len(taskArgs.containers) :
              /\ taskArgs.containers[k] \in ContainerInput
              /\ Amount(taskArgs.containers[k].cpu) \in Nat
              /\ MemoryOf(taskArgs.containers[k]) \in Nat
<1>1. /\ taskArgs \in SizingRequest
      /\ Len(taskArgs.containers) \in Nat
      /\ DOMAIN taskArgs.containers = 1..Len(taskArgs.containers)
      /\ \A k \in 1..Len(taskArgs.containers) :
           taskArgs.containers[k] \in ContainerInput
  BY SizingRequestAssumption DEF SizingRequest
<1>2. QED
  BY <1>1, MemoryOfType, AmountType DEF ContainerInput

LEMMA SizingInvInit == SizingInit => SizingInv
<1> SUFFICES ASSUME SizingInit PROVE SizingInv
  OBVIOUS
<1>1. Len(taskArgs.containers) \in Nat
  BY ContainersTyped DEF SizingInit
<1>2. QED
  BY <1>1 DEF SizingInit, SizingInv, SizingTypeOK, OrNotGiven

LEMMA SizingInvNext == SizingInv /\ [SizingNext]_sizingVars => SizingInv'
<1> SUFFICES ASSUME SizingInv, [SizingNext]_sizingVars
             PROVE  SizingInv'
  OBVIOUS
<1> USE DEF SizingInv, SizingTypeOK
<1>0. /\ taskArgs \in SizingRequest
      /\ Len(taskArgs.containers) \in Nat
      /\ \A k \in 1..Len(taskArgs.containers) :
           /\ taskArgs.containers[k] \in ContainerInput
           /\ Amount(taskArgs.containers[k].cpu) \in Nat
           /\ MemoryOf(taskArgs.containers[k]) \in Nat
  BY ContainersTyped
<1>1. CASE AddContainer
  <2>1. added' \in 1..Len(taskArgs.containers) /\ added' = added + 1
    BY <1>0, <1>1 DEF AddContainer
  <2> DEFINE c == taskArgs.containers[added + 1]
  <2>2. MemoryOf(c) \in Nat /\ Amount(c.cpu) \in Nat
    BY <1>0, <2>1
  <2>3. memoryMB' = memoryMB + MemoryOf(c) /\ cpuUnits' = cpuUnits + Amount(c.cpu)
    BY <1>1, <2>1 DEF AddContainer, Plus
  <2>4. SizingTypeOK'
    BY <1>1, <2>1, <2>2, <2>3 DEF AddContainer
  <2>5. \A k \in 1..added' : Holds(k)'
    <3> SUFFICES ASSUME NEW k \in 1..added' PROVE Holds(k)'
      OBVIOUS
    <3>0. taskArgs' = taskArgs
      BY <1>1 DEF AddContainer
    <3>1. CASE k = added + 1
      BY <2>2, <2>3, <3>0, <3>1 DEF Holds, MemoryOf
    <3>2. CASE k # added + 1
      <4>1. k \in 1..added /\ Holds(k)
        BY <2>1, <3>2
      <4>2. /\ Amount(taskArgs.containers[k].cpu) \in Nat
            /\ MemoryOf(taskArgs.containers[k]) \in Nat
        BY <1>0, <2>1
      <4>3. /\ Amount(taskArgs.containers[k].cpu) <= cpuUnits'
            /\ MemoryOf(taskArgs.containers[k]) <= memoryMB'
        BY <4>1, <4>2, <2>2, <2>3 DEF Holds
      <4>4. QED
        BY <4>3, <3>0 DEF Holds, MemoryOf
    <3>3. QED
      BY <3>1, <3>2
  <2>6. phase' = "adding" /\ config' = NotGiven
    BY <1>1 DEF AddContainer
  <2>7. QED
    BY <2>4, <2>5, <2>6
<1>2. CASE RefuseTask
  <2>1. ExceedsMaximum
    <3>1. CASE ExceedsMaximum
      BY <3>1
    <3>2. CASE ~ExceedsMaximum
      <4> DEFINE largest == [cpu |-> MaxCpu, memory |-> MaxMemory]
      <4>1. Fits(largest)
        BY <3>2 DEF Fits, CpuUnits, MemoryMB, ExceedsMaximum, MaxCpu, MaxMemory
      <4>2. QED
        BY <1>2, <3>2, <4>1, Largest DEF RefuseTask
    <3>3. QED
      BY <3>1, <3>2
  <2>2. /\ phase' = "refused" /\ added' = added
        /\ added = Len(taskArgs.containers)
        /\ config' = config /\ config = NotGiven
        /\ taskArgs' = taskArgs /\ cpuUnits' = cpuUnits
        /\ memoryMB' = memoryMB /\ taskSize' = taskSize
    BY <1>2 DEF RefuseTask
  <2>3. ExceedsMaximum'
    BY <2>1, <2>2 DEF ExceedsMaximum
  <2>4. \A k \in 1..added' : Holds(k)'
    BY <2>2 DEF Holds, MemoryOf
  <2>5. QED
    BY <2>2, <2>3, <2>4
<1>3. CASE Size
  <2>1. /\ phase' = "sized" /\ added' = added
        /\ added = Len(taskArgs.containers)
        /\ taskArgs' = taskArgs /\ cpuUnits' = cpuUnits
        /\ memoryMB' = memoryMB /\ taskSize' = taskSize
    BY <1>3 DEF Size
  <2>2. PICK c \in AllConfigs : IsFirst(c) /\ config' = c
    BY <1>3 DEF Size
  <2>3. IsFirst(config)'
    BY <2>1, <2>2 DEF IsFirst, Fits
  <2>4. \A k \in 1..added' : Holds(k)'
    BY <2>1 DEF Holds, MemoryOf
  <2>5. QED
    BY <2>1, <2>2, <2>3, <2>4 DEF OrNotGiven
<1>4. CASE Register
  <2>1. /\ phase' = "registered" /\ added' = added
        /\ added = Len(taskArgs.containers)
        /\ config' = config /\ config \in AllConfigs /\ IsFirst(config)
        /\ taskArgs' = taskArgs /\ cpuUnits' = cpuUnits /\ memoryMB' = memoryMB
    BY <1>4 DEF Register, IsFirst
  <2>2. CpuUnits(config) \in Nat /\ MemoryMB(config) \in Nat
    BY <2>1, TableType DEF CpuUnits, MemoryMB
  <2>3. taskSize' \in [cpu : Nat, memory : Nat]
    BY <1>0, <1>4, <2>2 DEF Register, OrComputed, OrNotGiven, SizingRequest
  <2>4. IsFirst(config)'
    BY <2>1 DEF IsFirst, Fits
  <2>5. \A k \in 1..added' : Holds(k)'
    BY <2>1 DEF Holds, MemoryOf
  <2>6. QED
    BY <2>1, <2>3, <2>4, <2>5 DEF OrNotGiven
<1>5. CASE UNCHANGED sizingVars
  <2>1. SizingInv' <=> SizingInv
    BY <1>5 DEF sizingVars, Holds, MemoryOf, IsFirst, Fits, ExceedsMaximum
  <2>2. QED
    BY <2>1
<1>6. QED
  BY <1>1, <1>2, <1>3, <1>4, <1>5 DEF SizingNext

LEMMA SizingInvariant == SizingSpec => []SizingInv
  BY SizingInvInit, SizingInvNext, PTL DEF SizingSpec

-----------------------------------------------------------------------------
(* Every variable keeps its type.                                          *)
THEOREM SizingTypeCorrect == SizingSpec => []SizingTypeOK
<1>1. SizingInv => SizingTypeOK
  BY DEF SizingInv
<1>2. QED
  BY <1>1, SizingInvariant, PTL

(* For any containers, the configuration found covers their sum and none   *)
(* that does costs less: the search by memory and vCPUs is as good as the  *)
(* search by price that the code means.                                    *)
THEOREM SizingIsCheapest == SizingSpec => []CheapestThatCovers
<1>1. SizingInv => CheapestThatCovers
  <2> SUFFICES ASSUME SizingInv, config # NotGiven
               PROVE  /\ Covers(config)
                      /\ \A c \in AllConfigs : Covers(c) => Cost(config) <= Cost(c)
    BY DEF CheapestThatCovers
  <2>1. IsFirst(config)
    BY DEF SizingInv, SizingTypeOK
  <2>2. cpuUnits \in Nat /\ memoryMB \in Nat
    BY DEF SizingInv, SizingTypeOK
  <2>3. Covers(config)
    BY <2>1 DEF IsFirst, Covers, Fits
  <2>4. \A c \in AllConfigs : Covers(c) => Cost(config) <= Cost(c)
    BY <2>1, <2>2, FirstIsCheapest DEF Covers, Fits
  <2>5. QED
    BY <2>3, <2>4
<1>2. QED
  BY <1>1, SizingInvariant, PTL

(* A task is refused only when its containers want more cpu, or more       *)
(* memory, than every configuration has.                                   *)
THEOREM SizingRefusesOnlyBeyondMaximum == SizingSpec => []RefusedOnlyBeyondMaximum
<1>1. SizingInv => RefusedOnlyBeyondMaximum
  <2> SUFFICES ASSUME SizingInv, phase = "refused"
               PROVE  \/ \A c \in AllConfigs : CpuUnits(c) < cpuUnits
                      \/ \A c \in AllConfigs : MemoryMB(c) < memoryMB
    BY DEF RefusedOnlyBeyondMaximum
  <2>1. ExceedsMaximum /\ cpuUnits \in Nat /\ memoryMB \in Nat
    BY DEF SizingInv, SizingTypeOK
  <2>2. CASE cpuUnits > 256 * MaxCpu
    BY <2>1, <2>2, TableType DEF CpuUnits, MaxCpu
  <2>3. CASE memoryMB > 512 * MaxMemory
    BY <2>1, <2>3, TableType DEF MemoryMB, MaxMemory
  <2>4. QED
    BY <2>1, <2>2, <2>3 DEF ExceedsMaximum
<1>2. QED
  BY <1>1, SizingInvariant, PTL

(* What was found has room for each container on its own.                  *)
THEOREM SizingHasRoomForEach == SizingSpec => []EveryContainerFits
<1>1. SizingInv => EveryContainerFits
  <2> SUFFICES ASSUME SizingInv, config # NotGiven,
                      NEW k \in DOMAIN taskArgs.containers
               PROVE  /\ Amount(taskArgs.containers[k].cpu) <= CpuUnits(config)
                      /\ MemoryOf(taskArgs.containers[k]) <= MemoryMB(config)
    BY DEF EveryContainerFits
  <2>1. IsFirst(config) /\ added = Len(taskArgs.containers)
    BY DEF SizingInv, SizingTypeOK
  <2>2. cpuUnits \in Nat /\ memoryMB \in Nat /\ taskArgs \in TaskArgs
    BY DEF SizingInv, SizingTypeOK
  <2>3. /\ k \in 1..added
        /\ Amount(taskArgs.containers[k].cpu) \in Nat
        /\ MemoryOf(taskArgs.containers[k]) \in Nat
    BY <2>1, <2>2, ContainersTyped
  <2>4. Holds(k)
    BY <2>3 DEF SizingInv
  <2>5. /\ CpuUnits(config) \in Nat /\ MemoryMB(config) \in Nat
        /\ cpuUnits <= CpuUnits(config) /\ memoryMB <= MemoryMB(config)
    BY <2>1, <2>2, TableType DEF IsFirst, Fits, CpuUnits, MemoryMB
  <2>6. QED
    BY <2>2, <2>3, <2>4, <2>5 DEF Holds
<1>2. QED
  BY <1>1, SizingInvariant, PTL
=============================================================================
