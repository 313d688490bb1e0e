---------------------- MODULE MCServiceBehindBalancer ----------------------
(* Instances of ServiceBehindBalancer for TLC: programs that vary in the   *)
(* balancer, programs that vary in the service, and programs that vary in  *)
(* the listeners of a balancer and the mapping that names its group.       *)
EXTENDS ServiceBehindBalancer

(* Balancers: SubnetArgs and SecurityArgs of LoadBalancer.                 *)
MCSubnetArgs == {"subnets", "subnetIds", "subnetMappings"}
MCSecurityArgs == {"securityGroups", "skip", "args", "securityGroupId"}

Inputs(protocols) ==
  [port : {Undefined, 80, 443, 8080}, protocol : {Undefined} \cup protocols,
   ownActions : {FALSE}]
    \cup {[port |-> 443, protocol |-> Undefined, ownActions |-> TRUE]}

Lists(inputs, n) == UNION {[1..k -> inputs] : k \in 0..n}

Groups(protocols) ==
  {Undefined, [port |-> Undefined, protocol |-> Undefined]}
    \cup [port : {8080}, protocol : {Undefined} \cup protocols]

(* One kind of conflict at a time, and all that concerns ports together.   *)
RequestsOf(type, protocols) ==
  [type : {type}, subnetArgs : SUBSET MCSubnetArgs,
   security : IF type = "application" THEN SUBSET MCSecurityArgs
              ELSE SUBSET {"securityGroups"},
   defaultTargetGroup : Groups(protocols),
   defaultTargetGroupPort : {Undefined, 8080},
   listener : {Undefined, [port |-> 443, protocol |-> Undefined, ownActions |-> FALSE]},
   listeners : {Undefined, <<>>}]
    \cup
  [type : {type}, subnetArgs : {{}}, security : {{}},
   defaultTargetGroup : Groups(protocols),
   defaultTargetGroupPort : {Undefined, 80, 8080},
   listener : {Undefined}, listeners : Lists(Inputs(protocols), 2)]
    \cup
  [type : {type}, subnetArgs : {{}}, security : {{}},
   defaultTargetGroup : Groups(protocols),
   defaultTargetGroupPort : {Undefined, 80, 8080},
   listener : {Undefined} \cup Inputs(protocols), listeners : {Undefined}]

AllBalancers ==
  RequestsOf("application", {"HTTP", "HTTPS"}) \cup RequestsOf("network", {"TCP", "TLS"})

PlainBalancer ==
  [type |-> "network", subnetArgs |-> {}, security |-> {},
   defaultTargetGroup |-> Undefined, defaultTargetGroupPort |-> Undefined,
   listener |-> Undefined, listeners |-> <<>>]

-----------------------------------------------------------------------------
(* Services.                                                               *)
LogsArn == BuildArn(<<"logs">>, "home", "a")

LogInputs ==
  {Undefined,
   [skip |-> TRUE, existing |-> Undefined, args |-> FALSE],
   [skip |-> FALSE, args |-> TRUE,
    existing |-> [arn |-> LogsArn, name |-> Undefined, region |-> Undefined]],
   [skip |-> FALSE, args |-> FALSE,
    existing |-> [arn |-> LogsArn, name |-> Undefined, region |-> Undefined]],
   [skip |-> FALSE, args |-> FALSE,
    existing |-> [arn |-> S3Arn(<<"logs">>), name |-> Undefined, region |-> Undefined]]}

RoleInputs == {Undefined} \cup [skip : BOOLEAN, roleArn : BOOLEAN, args : BOOLEAN]

OneMapping == [containerPort : {Undefined, 80}, hostPort : {Undefined, 8080},
               targetGroup : {Undefined, "blue"}]
Plain == [containerPort |-> 80, hostPort |-> Undefined, targetGroup |-> Undefined]
Grouped(g) == [containerPort |-> Undefined, hostPort |-> Undefined, targetGroup |-> g]

TaskOf(container, containers, logGroup, taskRole, executionRole) ==
  [container : container, containers : containers, logGroup : logGroup,
   taskRole : taskRole, executionRole : executionRole]

(* Every mapping; every pair of containers and groups; every helper; every *)
(* combination of the service's own arguments.                             *)
OneContainer == [name : {Undefined, "web"}, portMappings : {<<x>> : x \in OneMapping}]

TwoContainers ==
  {[n \in {"web", "side"} |-> IF n = "web" THEN <<Grouped("blue")>> ELSE y] :
     y \in {<<>>, <<Grouped("green")>>, <<Plain>>, <<Grouped("blue"), Grouped("green")>>}}

Simple == [name |-> Undefined, portMappings |-> <<Grouped("blue")>>]

OneContainerTasks == TaskOf(OneContainer, {Undefined}, {Undefined}, {Undefined}, {Undefined})
TwoContainerTasks ==
  TaskOf({Undefined, Simple}, {Undefined} \cup TwoContainers, {Undefined},
         {Undefined}, {Undefined})

Helped ==
  TaskOf({Simple}, {Undefined}, LogInputs, {Undefined}, {Undefined})
    \cup TaskOf({Simple}, {Undefined}, {Undefined}, RoleInputs, {Undefined})
    \cup TaskOf({Simple}, {Undefined}, {Undefined}, {Undefined}, RoleInputs)

Services(tasks, launch, network, assign, strategies, own, private, ports) ==
  [taskDefinition : {FALSE}, taskDefinitionArgs : tasks, launch : launch,
   networkConfiguration : network, assignPublicIp : assign,
   capacityProviderStrategies : strategies,
   useClusterDefaultCapacityProviderStrategy : strategies, loadBalancers : own,
   privateSubnets : private, ports : ports]

Blue(ports) == [{"blue"} -> ports]
BlueAndGreen(ports) == [{"blue", "green"} -> ports]

SkipAll == [skip |-> TRUE, roleArn |-> FALSE, args |-> FALSE]
Bare == TaskOf({Simple}, {Undefined}, {Undefined}, {SkipAll}, {SkipAll})

AllServices ==
  Services(OneContainerTasks, {"EC2"}, {FALSE}, {Undefined}, {FALSE}, {FALSE}, {FALSE},
           Blue({Undefined, 80, 8080}))
  \cup Services(TwoContainerTasks, {"EC2"}, {FALSE}, {Undefined}, {FALSE}, {FALSE},
                {FALSE}, BlueAndGreen({Undefined, 80}))
  \cup Services(Helped, {"FARGATE"}, {TRUE}, {Undefined}, {FALSE}, {FALSE}, {FALSE},
                Blue({80}))
  \cup Services(Bare, {"FARGATE", "EC2"}, BOOLEAN, {Undefined, TRUE, FALSE}, BOOLEAN,
                BOOLEAN, BOOLEAN, Blue({80}))
  \cup {[r EXCEPT !.taskDefinition = TRUE] :
          r \in Services({Undefined} \cup Bare, {"FARGATE", "EC2"}, {FALSE}, {Undefined},
                         BOOLEAN, BOOLEAN, {TRUE}, {<<>>})}
  \cup Services({Undefined}, {"EC2"}, {FALSE}, {Undefined}, {FALSE}, {FALSE}, {TRUE},
                {<<>>})

(* A service that is refused at once.                                      *)
NoService ==
  [(CHOOSE r \in AllServices : r.taskDefinition /\ r.taskDefinitionArgs # Undefined)
     EXCEPT !.ports = <<>>]

-----------------------------------------------------------------------------
(* A service whose mapping names the balancer's group.                     *)
Listeners ==
  [port : {Undefined, 443}, protocol : {Undefined}, ownActions : BOOLEAN]

Balancers(listener, listeners) ==
  [type : {"application", "network"}, subnetArgs : {{}}, security : {{}},
   defaultTargetGroup :
     {Undefined, [port |-> 8080, protocol |-> Undefined]},
   defaultTargetGroupPort : {Undefined, 8080},
   listener : listener, listeners : listeners]

BalancersWithListeners ==
  Balancers({Undefined} \cup Listeners, {Undefined})
    \cup Balancers({Undefined},
                   {<<>>} \cup {<<l>> : l \in Listeners}
                     \cup {<<l, m>> : l \in Listeners, m \in Listeners})

SkipLogs == [skip |-> TRUE, existing |-> Undefined, args |-> FALSE]

ToGroup == [containerPort : {Undefined, 80}, hostPort : {Undefined},
            targetGroup : {"default"}]

ToBalancer ==
  Services(TaskOf([name : {"web"}, portMappings : {<<x>> : x \in ToGroup}], {Undefined},
                  {SkipLogs}, {SkipAll}, {SkipAll}),
           {"FARGATE"}, {TRUE}, {Undefined}, {FALSE}, {FALSE}, {FALSE}, {<<>>})

-----------------------------------------------------------------------------
MCPrograms ==
  (AllBalancers \X {NoService}) \cup ({PlainBalancer} \X AllServices)
    \cup (BalancersWithListeners \X ToBalancer)

MCRequests == AllServices \cup ToBalancer \cup {NoService}
=============================================================================
