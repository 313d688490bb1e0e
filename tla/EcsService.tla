----------------------------- MODULE EcsService -----------------------------
(***************************************************************************)
(* FargateService and EC2Service with the task definition they make: the   *)
(* constructor checks its arguments and registers resources one after the  *)
(* other, while the engine creates them as what they wait for becomes      *)
(* known.  The ports of target groups are outputs: the container           *)
(* definitions and the service's load balancers are each computed from     *)
(* them when they are known, by different functions.                       *)
(*                                                                         *)
(* Of a container only its port mappings are kept.  The order in which     *)
(* containers are listed, and cpu and memory (see FargateSizing), are left *)
(* out.                                                                    *)
(***************************************************************************)
EXTENDS DefaultResources, FiniteSets

CONSTANTS
  Requests,      \* the components considered
  Names,         \* of containers
  TargetGroups, Ports,
  HomeRegion, Account,
  MaxFailures    \* bound on the creations that AWS refuses

ASSUME ServiceFailuresAssumption == MaxFailures \in Nat

ASSUME ContainerAssumption == "container" \in Names /\ Undefined \notin Ports

(* A port mapping, of which every field is optional, and the ports it      *)
(* comes to.                                                               *)
Mapping ==
  [containerPort : Optional(Ports), hostPort : Optional(Ports),
   targetGroup : Optional(TargetGroups)]
PortMapping == [containerPort : Optional(Ports), hostPort : Optional(Ports)]

(* The arguments as their types have them, of the helpers' inputs all and  *)
(* of containers the mappings.                                             *)
IsTask(task) ==
  /\ task.containers # Undefined =>
       /\ DOMAIN task.containers \subseteq Names
       /\ \A n \in DOMAIN task.containers : task.containers[n] \in Seq(Mapping)
  /\ task.container # Undefined =>
       /\ task.container.name \in Optional(Names)
       /\ task.container.portMappings \in Seq(Mapping)

ASSUME ServiceRequestAssumption ==
  \A r \in Requests :
    /\ r.launch \in {"FARGATE", "EC2"}
    /\ {r.networkConfiguration, r.capacityProviderStrategies,
        r.useClusterDefaultCapacityProviderStrategy} \subseteq BOOLEAN
    /\ r.assignPublicIp \in Optional(BOOLEAN)
    /\ r.taskDefinitionArgs # Undefined => IsTask(r.taskDefinitionArgs)
    /\ DOMAIN r.ports \subseteq TargetGroups
    /\ \A g \in DOMAIN r.ports : r.ports[g] \in Optional(Ports)

ASSUME UndefinedAssumption ==
  /\ Undefined \notin {"FARGATE", "EC2"}
  /\ Undefined \notin BOOLEAN
  /\ \A named \in SUBSET Names : Undefined \notin [named -> Seq(PortMapping)]

Kinds == {"LogGroup", "TaskRole", "ExecutionRole", "ExecutionPolicy",
          "TaskDefinition", "SecurityGroup", "Service"}

VARIABLES
  request,
  step,         \* of the constructor
  logs,         \* what defaultLogGroup returned
  registered,
  created,
  refused,      \* registered, but its inputs or AWS refused it
  failures,
  groupPort,    \* the ports of the target groups that exist
  definition,   \* the containers of the task definition, once created
  service       \* the service, once created

program == <<request, step, logs, registered>>
results == <<definition, service>>
engine == <<created, refused, failures, groupPort, results>>
vars == <<program, engine>>

-----------------------------------------------------------------------------
OrElse(x, y) == IF x = Undefined THEN y ELSE x

IsFargate == request.launch = "FARGATE"
Task == request.taskDefinitionArgs

(* normalizeTaskDefinitionContainers.                                      *)
ExactlyOneOfContainers == (Task.container = Undefined) # (Task.containers = Undefined)
ContainerName(name) == OrElse(name, "container")
NormalizeContainers ==
  IF Task.containers # Undefined THEN Task.containers
  ELSE [n \in {ContainerName(Task.container.name)} |-> Task.container.portMappings]

PortOf(mapping) ==
  IF mapping.targetGroup = Undefined THEN Undefined ELSE groupPort[mapping.targetGroup]

(* getMappingInputs.                                                       *)
TargetGroupForgotten(mapping, tgPort) ==
  [containerPort |-> OrElse(mapping.containerPort, mapping.hostPort),
   hostPort |-> OrElse(OrElse(mapping.hostPort, tgPort), mapping.containerPort)]
GetMappingInputs(mapping, tgPort) ==
  [containerPort |-> OrElse(OrElse(mapping.containerPort, mapping.hostPort), tgPort),
   hostPort |-> OrElse(OrElse(mapping.hostPort, tgPort), mapping.containerPort)]

ContainerDefinitions ==
  [n \in DOMAIN NormalizeContainers |->
     [k \in DOMAIN NormalizeContainers[n] |->
        LET mapping == NormalizeContainers[n][k]
        IN  GetMappingInputs(mapping, PortOf(mapping))]]

Mappings(n) ==
  {NormalizeContainers[n][k] : k \in DOMAIN NormalizeContainers[n]}

AttachedOnContainerPort ==
  UNION {{[containerName |-> n,
           containerPort |-> GetMappingInputs(mapping, PortOf(mapping)).containerPort,
           targetGroup |-> mapping.targetGroup] :
            mapping \in {x \in Mappings(n) : PortOf(x) # Undefined}} :
         n \in DOMAIN NormalizeContainers}
ComputeLoadBalancers ==
  UNION {{[containerName |-> n, containerPort |-> PortOf(mapping),
           targetGroup |-> mapping.targetGroup] :
            mapping \in {x \in Mappings(n) : PortOf(x) # Undefined}} :
         n \in DOMAIN NormalizeContainers}

(* The target groups whose outputs the task and the service read.          *)
GroupsRead ==
  IF Task = Undefined THEN {}
  ELSE {x.targetGroup : x \in UNION {Mappings(n) : n \in DOMAIN NormalizeContainers}}
         \ {Undefined}

-----------------------------------------------------------------------------
Init ==
  /\ request \in Requests
  /\ step = "arguments"
  /\ logs = Nothing
  /\ registered = {}
  /\ created = {}
  /\ refused = {}
  /\ failures = 0
  /\ groupPort = [g \in {} |-> Undefined]
  /\ definition = Undefined
  /\ service = Undefined

Throw ==
  /\ step' = "failed"
  /\ UNCHANGED <<request, logs, registered, engine>>

Continue(next, resources) ==
  /\ step' = next
  /\ registered' = registered \cup resources
  /\ UNCHANGED <<request, engine>>

(* The checks before anything is registered.                               *)
CheckArguments ==
  /\ step = "arguments"
  /\ IF \/ request.taskDefinition /\ Task # Undefined
        \/ /\ IsFargate
           /\ request.networkConfiguration
           /\ request.assignPublicIp # Undefined
     THEN Throw
     ELSE /\ Continue(IF Task = Undefined THEN "identifier" ELSE "containers", {})
          /\ UNCHANGED logs

(* The constructor of the task definition.                                 *)
CheckContainers ==
  /\ step = "containers"
  /\ IF ~ExactlyOneOfContainers
     THEN Throw
     ELSE Continue("logGroup", {}) /\ UNCHANGED logs

RegisterLogGroup ==
  /\ step = "logGroup"
  /\ LET result == DefaultLogGroup(Task.logGroup, HomeRegion, Account)
     IN  IF result = Throws
         THEN Throw
         ELSE /\ Continue("taskRole", IF result = Created THEN {"LogGroup"} ELSE {})
              /\ logs' = result

RegisterTaskRole ==
  /\ step = "taskRole"
  /\ LET result == DefaultRoleWithPolicies(Task.taskRole)
     IN  IF result = "throws"
         THEN Throw
         ELSE /\ Continue("executionRole",
                          IF result = "created" THEN {"TaskRole"} ELSE {})
              /\ UNCHANGED logs

RegisterExecutionRole ==
  /\ step = "executionRole"
  /\ LET result == DefaultRoleWithPolicies(Task.executionRole)
     IN  IF result = "throws"
         THEN Throw
         ELSE /\ Continue("taskDefinition",
                          IF result = "created"
                          THEN {"ExecutionRole", "ExecutionPolicy"} ELSE {})
              /\ UNCHANGED logs

RegisterTaskDefinition ==
  /\ step = "taskDefinition"
  /\ Continue("identifier", {"TaskDefinition"})
  /\ UNCHANGED logs

(* Back in the service's constructor.                                      *)
CheckIdentifier ==
  /\ step = "identifier"
  /\ IF ~request.taskDefinition /\ Task = Undefined
     THEN Throw
     ELSE Continue("capacity", {}) /\ UNCHANGED logs

CheckCapacity ==
  /\ step = "capacity"
  /\ IF request.capacityProviderStrategies
          /\ request.useClusterDefaultCapacityProviderStrategy
     THEN Throw
     ELSE Continue("service", {}) /\ UNCHANGED logs

HasDefaultNetwork == IsFargate /\ ~request.networkConfiguration

RegisterService ==
  /\ step = "service"
  /\ Continue("done", (IF HasDefaultNetwork THEN {"SecurityGroup"} ELSE {})
                        \cup {"Service"})
  /\ UNCHANGED logs

Construct ==
  \/ CheckArguments \/ CheckContainers \/ RegisterLogGroup \/ RegisterTaskRole
  \/ RegisterExecutionRole \/ RegisterTaskDefinition \/ CheckIdentifier
  \/ CheckCapacity \/ RegisterService

-----------------------------------------------------------------------------
(* The service's properties.                                               *)

LaunchType ==
  IF request.capacityProviderStrategies
       \/ request.useClusterDefaultCapacityProviderStrategy
  THEN Undefined ELSE request.launch

AssignPublicIp == OrElse(request.assignPublicIp, FALSE)

(* getDefaultNetworkConfiguration throws in an apply.                      *)
HasSubnets == HasDefaultNetwork => AssignPublicIp \/ request.privateSubnets

Subnets ==
  CASE ~HasDefaultNetwork -> "own"
    [] HasDefaultNetwork /\ AssignPublicIp -> "public"
    [] OTHER -> "private"

ReadsComputed == ~request.loadBalancers /\ Task # Undefined

Service ==
  [launchType |-> LaunchType, subnets |-> Subnets,
   loadBalancers |-> IF ReadsComputed THEN ComputeLoadBalancers ELSE Undefined]

(* What a resource waits for: resources of the component, target groups,   *)
(* and that no apply throws.                                               *)
OnlyTheGroup == {"SecurityGroup"}
ServiceNeeds == {"TaskDefinition", "SecurityGroup"}
MayNeed(r) ==
  CASE r = "ExecutionPolicy" -> {"ExecutionRole"}
    [] r = "TaskDefinition" -> {"LogGroup", "TaskRole", "ExecutionRole"}
    [] r = "Service" -> ServiceNeeds
    [] OTHER -> {}
Needs(r) == MayNeed(r) \cap registered

ReadsGroups(r) ==
  CASE r = "TaskDefinition" -> GroupsRead
    [] r = "Service" /\ ReadsComputed -> GroupsRead
    [] OTHER -> {}

LogsAreReadable == logs \notin {Created, Nothing} => IsLogGroupArn(logs.arn)
InputsAreReadable(r) ==
  CASE r = "TaskDefinition" -> LogsAreReadable
    [] r = "Service" -> HasSubnets
    [] OTHER -> TRUE

IsReady(r) ==
  /\ r \in registered \ (created \cup refused)
  /\ Needs(r) \subseteq created
  /\ ReadsGroups(r) \subseteq DOMAIN groupPort

Create(r) ==
  /\ IsReady(r)
  /\ InputsAreReadable(r)
  /\ created' = created \cup {r}
  /\ definition' = IF r = "TaskDefinition" THEN ContainerDefinitions ELSE definition
  /\ service' = IF r = "Service" THEN Service ELSE service
  /\ UNCHANGED <<program, refused, failures, groupPort>>

(* An apply throws, or AWS refuses the resource.                           *)
Refuse(r) ==
  /\ IsReady(r)
  /\ \/ ~InputsAreReadable(r) /\ UNCHANGED failures
     \/ failures < MaxFailures /\ failures' = failures + 1
  /\ refused' = refused \cup {r}
  /\ UNCHANGED <<program, created, groupPort, results>>

(* A target group of another component is created.                         *)
TargetGroupIsKnown(g, port) ==
  /\ g \notin DOMAIN groupPort
  /\ groupPort' = [h \in DOMAIN groupPort \cup {g} |->
                     IF h = g THEN port ELSE groupPort[h]]
  /\ UNCHANGED <<program, created, refused, failures, results>>

Engine == \E r \in Kinds : Create(r) \/ Refuse(r)

(* The groups that were made elsewhere.                                    *)
OtherGroups == \E g \in DOMAIN request.ports : TargetGroupIsKnown(g, request.ports[g])
-----------------------------------------------------------------------------
(* Properties.                                                             *)

(* Every variable has its type.                                            *)
TypeOK ==
  /\ request \in Requests
  /\ step \in {"arguments", "containers", "logGroup", "taskRole",
               "executionRole", "taskDefinition", "identifier", "capacity",
               "service", "done", "failed"}
  /\ registered \in SUBSET Kinds
  /\ created \in SUBSET registered
  /\ refused \in SUBSET (registered \ created)
  /\ failures \in 0..MaxFailures
  /\ DOMAIN groupPort \in SUBSET TargetGroups
  /\ \A g \in DOMAIN groupPort : groupPort[g] \in Optional(Ports)
  /\ definition # Undefined => DOMAIN definition \in SUBSET Names
  /\ service # Undefined => service.launchType \in {"FARGATE", "EC2", Undefined}

(* The service and the task, computed by two functions at two times, agree *)
(* on the containers: every target group of a mapping that has a port is   *)
(* attached, under the name its container has in the task.                 *)
GroupsAreAttached ==
  service # Undefined /\ service.loadBalancers # Undefined =>
    /\ definition # Undefined
    /\ \A b \in service.loadBalancers : b.containerName \in DOMAIN definition
    /\ \A g \in GroupsRead : groupPort[g] # Undefined =>
         \E b \in service.loadBalancers : b.targetGroup = g

(* A mapping that states one port, or only names a target group, has that  *)
(* port on the host, in the container, and at the service.                 *)
PortsAgreeUnlessStated ==
  definition # Undefined =>
    \A n \in DOMAIN definition : \A k \in DOMAIN definition[n] :
      LET mapping == NormalizeContainers[n][k]
          stated == {p \in {mapping.containerPort, mapping.hostPort, PortOf(mapping)} :
                       p # Undefined}
      IN  Cardinality(stated) = 1 =>
            /\ definition[n][k].containerPort \in stated
            /\ definition[n][k].hostPort \in stated

(* Both ports of a mapping stay as the user stated them, whatever port the *)
(* target group turns out to have.                                         *)
StatedPortsAreKept ==
  definition # Undefined =>
    \A n \in DOMAIN definition : \A k \in DOMAIN definition[n] :
      LET mapping == NormalizeContainers[n][k]
      IN  /\ mapping.containerPort \in {Undefined, definition[n][k].containerPort}
          /\ mapping.hostPort \in {Undefined, definition[n][k].hostPort}

(* "ECS uses the cluster default capacity provider strategy only when      *)
(* neither a launch type nor a service-level capacity provider strategy is *)
(* provided": a service never comes with two ways to launch, nor with none.*)
OneWayToLaunch ==
  service # Undefined =>
    Cardinality({w \in {"type", "strategies", "cluster"} :
      CASE w = "type" -> service.launchType # Undefined
        [] w = "strategies" -> request.capacityProviderStrategies
        [] w = "cluster" -> request.useClusterDefaultCapacityProviderStrategy}) = 1

(* Whatever is refused and when, in the constructor or in an apply, there  *)
(* is no service; and what the constructor refuses leaves a task           *)
(* definition behind for one reason only.                                  *)
RefusalLeavesNoService ==
  /\ step = "failed" =>
       /\ {"Service", "SecurityGroup"} \cap registered = {}
       /\ "TaskDefinition" \in registered =>
            request.capacityProviderStrategies
              /\ request.useClusterDefaultCapacityProviderStrategy
  /\ "Service" \in created =>
       /\ refused \subseteq {"ExecutionPolicy"}
       /\ HasDefaultNetwork /\ Subnets = "private" => request.privateSubnets

(* The arguments are in order.                                             *)
IsValid ==
  /\ request.taskDefinition = (Task = Undefined)
  /\ ~(request.capacityProviderStrategies
         /\ request.useClusterDefaultCapacityProviderStrategy)
  /\ IsFargate /\ request.networkConfiguration => request.assignPublicIp = Undefined
  /\ HasSubnets
  /\ Task # Undefined =>
       LET l == DefaultLogGroup(Task.logGroup, HomeRegion, Account)
       IN  /\ ExactlyOneOfContainers
           /\ l # Throws
           /\ l \in {Created, Nothing} \/ IsLogGroupArn(l.arn)
           /\ DefaultRoleWithPolicies(Task.taskRole) # "throws"
           /\ DefaultRoleWithPolicies(Task.executionRole) # "throws"

(* "Presents required Service load balancers if target group included in   *)
(* port mappings": the port a load balancer is given, from one function,   *)
(* is one on which the container listens, by the other, unless the user    *)
(* states another port than the group's.                                   *)
OnGroupsPort(mapping) ==
  {mapping.containerPort, mapping.hostPort} \subseteq {Undefined, PortOf(mapping)}

ServedPortIsExposed ==
  service # Undefined /\ service.loadBalancers # Undefined =>
    \A b \in service.loadBalancers :
      (\A mapping \in Mappings(b.containerName) :
         mapping.targetGroup = b.targetGroup => OnGroupsPort(mapping))
      => \E k \in DOMAIN definition[b.containerName] :
           definition[b.containerName][k].containerPort = b.containerPort

(* Whatever port the target group turns out to have, and whenever: what a  *)
(* mapping states is kept, a single port is used on both sides, and the    *)
(* load balancer's port is one the container exposes.                      *)
PortsAgree ==
  /\ PortsAgreeUnlessStated
  /\ StatedPortsAreKept
  /\ ServedPortIsExposed
=============================================================================
