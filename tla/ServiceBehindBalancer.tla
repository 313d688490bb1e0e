----------------------- MODULE ServiceBehindBalancer -----------------------
(***************************************************************************)
(* A program that makes a load balancer and then a service whose port      *)
(* mapping names the balancer's default target group.  The constructors    *)
(* run one after the other; the engine creates the resources of both as    *)
(* they become ready, and the service learns the group's port when the     *)
(* group has been created.                                                 *)
(***************************************************************************)
EXTENDS EcsService

CONSTANT Programs   \* the pairs of a balancer and a service considered

BalancerRequests == {p[1] : p \in Programs}

(* The balancer's group is not one of those made elsewhere.                *)
ASSUME ProgramsAssumption ==
  \A p \in Programs : p[2] \in Requests /\ "default" \notin DOMAIN p[2].ports

ASSUME PortsAssumption == {80, 443} \subseteq Ports /\ "default" \in TargetGroups

VARIABLES
  balancerRequest, balancerStep, balancerRegistered, security, targetGroup,
  listening,         \* LoadBalancer
  balancerCreated    \* positions in balancerRegistered

Balancer == INSTANCE LoadBalancer
              WITH Requests <- BalancerRequests, step <- balancerStep,
                   registered <- balancerRegistered

ofBalancer == <<balancerRequest, balancerStep, balancerRegistered, security,
                targetGroup, listening>>
ASSUME BalancerRequestAssumption ==
  /\ \A r \in BalancerRequests : r \in Balancer!Request
  /\ Undefined \notin Balancer!Protocols

composedVars == <<vars, ofBalancer, balancerCreated>>

-----------------------------------------------------------------------------
ComposedInit ==
  /\ \E p \in Programs : balancerRequest = p[1] /\ request = p[2]
  /\ Init
  /\ Balancer!Init
  /\ balancerCreated = {}

ConstructBalancer ==
  /\ Balancer!Next
  /\ UNCHANGED <<vars, balancerCreated>>

ConstructService ==
  /\ balancerStep = "done"
  /\ Construct
  /\ UNCHANGED <<ofBalancer, balancerCreated>>

CreateServiceResource ==
  /\ Engine
  /\ UNCHANGED <<ofBalancer, balancerCreated>>

LearnOtherGroup ==
  /\ OtherGroups
  /\ UNCHANGED <<ofBalancer, balancerCreated>>

(* A listener names the balancer, and the group it forwards to; the        *)
(* balancer names its security group.                                      *)
BalancerNeeds(kind) ==
  CASE kind = "LoadBalancer" -> {"SecurityGroup"}
    [] kind = "Listener" -> {"LoadBalancer", "TargetGroup"}
    [] OTHER -> {}

IsReadyForBalancer(i) ==
  /\ i \in DOMAIN balancerRegistered \ balancerCreated
  /\ \A j \in DOMAIN balancerRegistered :
       balancerRegistered[j] \in BalancerNeeds(balancerRegistered[i])
         => j \in balancerCreated

(* AWS asks a group of targets of type "ip" for a port.                    *)
CreateBalancerResource(i) ==
  /\ IsReadyForBalancer(i)
  /\ balancerCreated' = balancerCreated \cup {i}
  /\ IF balancerRegistered[i] = "TargetGroup"
     THEN targetGroup.port # Undefined
            /\ TargetGroupIsKnown("default", targetGroup.port)
     ELSE UNCHANGED vars
  /\ UNCHANGED ofBalancer

BalancerEngine == \E i \in DOMAIN balancerRegistered : CreateBalancerResource(i)

ComposedNext ==
  \/ ConstructBalancer \/ ConstructService
  \/ CreateServiceResource \/ LearnOtherGroup \/ BalancerEngine

ComposedSpec ==
  /\ ComposedInit
  /\ [][ComposedNext]_composedVars
  /\ WF_composedVars(ConstructBalancer) /\ WF_composedVars(ConstructService)
  /\ WF_composedVars(CreateServiceResource) /\ WF_composedVars(LearnOtherGroup)
  /\ WF_composedVars(BalancerEngine)
-----------------------------------------------------------------------------
(* Properties of the balancer, for every order of creation around it.      *)

(* The merges that fill in listeners and target group agree with one       *)
(* another and keep the ports and protocols that listeners and group are   *)
(* given, and defaultTargetGroupPort where the code comes to look at it.   *)
EndpointsAgree ==
  /\ Balancer!TypeOK
  /\ Balancer!ListenerAndGroupAgree
  /\ Balancer!HttpsIsOn443
  /\ Balancer!GivenIsKept

(* A refusal, of either component and however late, leaves no service, no  *)
(* target group and no listener.                                           *)
RefusalsAreClean == RefusalLeavesNoService /\ Balancer!LateRefusalIsTheGroups

-----------------------------------------------------------------------------
(* Properties of the composition.                                          *)

IsCreated(kind) ==
  \E i \in balancerCreated : balancerRegistered[i] = kind

ListensForGroup == \E k \in DOMAIN listening : listening[k].toDefaultGroup

(* From listener to container on one port.                                 *)
Served ==
  /\ IsCreated("Listener")
  /\ ListensForGroup
  /\ service # Undefined
  /\ \E b \in service.loadBalancers :
       /\ b.targetGroup = "default" /\ b.containerPort = targetGroup.port
       /\ \E k \in DOMAIN definition[b.containerName] :
            definition[b.containerName][k].containerPort = b.containerPort

(* Only the group is named by the mapping.                                 *)
PassesTheGroup ==
  /\ IsValid
  /\ ReadsComputed
  /\ GroupsRead = {"default"}
  /\ \A n \in DOMAIN NormalizeContainers : \A k \in DOMAIN NormalizeContainers[n] :
       /\ NormalizeContainers[n][k].containerPort = Undefined
       /\ NormalizeContainers[n][k].hostPort = Undefined

(* A balancer that got as far as its listeners and a group with a port are *)
(* enough: the service is attached to the group, on a port its container   *)
(* exposes, whichever component's resources come up first.                 *)
ServedOnceGroupHasPort ==
  (PassesTheGroup /\ balancerStep = "done" /\ targetGroup.port # Undefined
     /\ ListensForGroup)
    ~> (Served \/ failures > 0)

(* The service is never attached to the balancer's group on a port other   *)
(* than the one the group was made with, whenever it learned it.           *)
AttachedOnGroupsPort ==
  service # Undefined /\ service.loadBalancers # Undefined =>
    \A b \in service.loadBalancers :
      b.targetGroup = "default" => b.containerPort = targetGroup.port

(* The service, whenever it is made, matches the task and the groups it is *)
(* attached to, and has one way to launch.                                 *)
ServiceIsWellFormed ==
  /\ TypeOK
  /\ GroupsAreAttached
  /\ AttachedOnGroupsPort
  /\ OneWayToLaunch

(* A service whose arguments are in order comes up behind a balancer that  *)
(* was not refused, in whatever order groups and resources do.             *)
GroupsHavePorts == "default" \in GroupsRead => targetGroup.port # Undefined

ServiceComesUp ==
  (IsValid /\ balancerStep = "done" /\ GroupsHavePorts)
    ~> ("Service" \in created \/ failures > 0)
=============================================================================
