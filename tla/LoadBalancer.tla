---------------------------- MODULE LoadBalancer ----------------------------
(***************************************************************************)
(* The constructors of ApplicationLoadBalancer and NetworkLoadBalancer:    *)
(* the arguments are checked and the security group, the balancer, the     *)
(* default target group and the listeners are registered, in the order of  *)
(* the code.  A check that fails after a registration leaves what was      *)
(* registered to the engine, which creates it.                             *)
(*                                                                         *)
(* Of a target group and a listener the port, the protocol and where the   *)
(* traffic goes are kept; of the subnets, only which argument gave them.   *)
(***************************************************************************)
EXTENDS Integers, Sequences, FiniteSets

CONSTANTS
  Requests,   \* the components considered
  Ports,
  Undefined

Optional(S) == S \cup {Undefined}

Protocols == {"HTTP", "HTTPS", "TCP", "TLS"}
Endpoint == [port : Optional(Ports), protocol : Optional(Protocols)]

(* A listener may bring defaultActions of its own.                         *)
ListenerInput ==
  [port : Optional(Ports), protocol : Optional(Protocols), ownActions : BOOLEAN]

SubnetArgs == {"subnets", "subnetIds", "subnetMappings"}

(* defaultSecurityGroup holds the keys that are given; "securityGroups"    *)
(* stands for the balancer's own argument of that name.                    *)
SecurityArgs == {"securityGroups", "skip", "args", "securityGroupId"}

Request ==
  [type : {"application", "network"}, subnetArgs : SUBSET SubnetArgs,
   security : SUBSET SecurityArgs, defaultTargetGroup : Optional(Endpoint),
   defaultTargetGroupPort : Optional(Ports), listener : Optional(ListenerInput),
   listeners : Optional(Seq(ListenerInput))]

VARIABLES
  balancerRequest,
  step,          \* where the constructor is
  registered,    \* the kinds registered so far, in order
  security,      \* whose security group the balancer has
  targetGroup,   \* the default target group's port and protocol
  listening      \* the listeners registered

balancerVars ==
  <<balancerRequest, step, registered, security, targetGroup, listening>>

-----------------------------------------------------------------------------
IsApplication == balancerRequest.type = "application"

PortToProtocol(port) == IF port = 443 THEN "HTTPS" ELSE "HTTP"
ProtocolToPort(protocol) == IF protocol = "HTTPS" THEN 443 ELSE 80

OrElse(x, default) == IF x = Undefined THEN default ELSE x

(* getListenerProtocol.                                                    *)
GetListenerProtocol(listener, defaultPort) ==
  IF listener = Undefined \/ (listener.port = Undefined /\ listener.protocol = Undefined)
  THEN [port |-> OrElse(defaultPort, 80), protocol |-> "HTTP"]
  ELSE [port |-> OrElse(listener.port, ProtocolToPort(listener.protocol)),
        protocol |-> OrElse(listener.protocol, PortToProtocol(listener.port))]

Nothing == [port |-> Undefined, protocol |-> Undefined]

(* getDefaultProtocol: of a list, the first of several; nothing of one.    *)
GetDefaultProtocol ==
  LET r == balancerRequest
  IN  CASE r.listeners = Undefined ->
             GetListenerProtocol(r.listener, r.defaultTargetGroupPort)
        [] r.listeners # Undefined /\ Len(r.listeners) = 1 -> Nothing
        [] r.listeners # Undefined /\ Len(r.listeners) = 0 ->
             GetListenerProtocol(Undefined, r.defaultTargetGroupPort)
        [] OTHER ->
             GetListenerProtocol(r.listeners[1], r.defaultTargetGroupPort)

(* `...defaults, ...given`.                                                *)
Overridden(defaults, given) ==
  IF given = Undefined THEN defaults
  ELSE [port |-> OrElse(given.port, defaults.port),
        protocol |-> OrElse(given.protocol, defaults.protocol)]

(* The properties of the default target group.                             *)
DefaultTargetGroup ==
  Overridden(IF IsApplication THEN GetDefaultProtocol
             ELSE [port |-> OrElse(balancerRequest.defaultTargetGroupPort, 80),
                   protocol |-> "TCP"],
             balancerRequest.defaultTargetGroup)

(* The defaults of a listener: of the only one, or of one of a list.       *)
LoneListenerDefaults ==
  IF IsApplication THEN GetDefaultProtocol ELSE [port |-> 80, protocol |-> "TCP"]
ListenerDefaultsAsAlone(listener) ==
  IF IsApplication THEN GetDefaultProtocol ELSE [port |-> 80, protocol |-> "TCP"]
ListenerDefaults(listener) ==
  IF IsApplication THEN GetListenerProtocol(listener, Undefined)
  ELSE [port |-> 80, protocol |-> "TCP"]

(* A listener sends its traffic to the default target group unless it has  *)
(* actions of its own.                                                     *)
Listener(defaults, listener) ==
  LET endpoint == Overridden(defaults, listener)
  IN  [port |-> endpoint.port, protocol |-> endpoint.protocol,
       toDefaultGroup |-> listener = Undefined \/ ~listener.ownActions]

-----------------------------------------------------------------------------
Init ==
  /\ balancerRequest \in Requests
  /\ step = "subnets"
  /\ registered = <<>>
  /\ security = Undefined
  /\ targetGroup = Undefined
  /\ listening = <<>>

Throw ==
  /\ step' = "failed"
  /\ UNCHANGED <<balancerRequest, registered, security, targetGroup, listening>>

Continue(next) ==
  /\ step' = next
  /\ UNCHANGED balancerRequest

(* Subnets come from one argument, or from the default VPC.                *)
ChooseSubnets ==
  /\ step = "subnets"
  /\ IF Cardinality(balancerRequest.subnetArgs) > 1
     THEN Throw
     ELSE /\ Continue("listeners")
          /\ UNCHANGED <<registered, security, targetGroup, listening>>

BothListenersGiven ==
  balancerRequest.listener # Undefined /\ balancerRequest.listeners # Undefined

CheckListeners ==
  /\ step = "listeners"
  /\ IF BothListenersGiven
     THEN Throw
     ELSE /\ Continue(IF IsApplication THEN "security" ELSE "balancer")
          /\ UNCHANGED <<registered, security, targetGroup, listening>>

(* The application balancer's security group.                              *)
ChooseSecurityGroup ==
  /\ step = "security"
  /\ LET given == balancerRequest.security
     IN  \/ /\ given \cap {"securityGroups", "skip"} # {}
            /\ Continue("balancer")
            /\ security' = IF "securityGroups" \in given THEN "user" ELSE Undefined
            /\ UNCHANGED <<registered, targetGroup, listening>>
         \/ /\ given \cap {"securityGroups", "skip"} = {}
            /\ {"args", "securityGroupId"} \subseteq given
            /\ Throw
         \/ /\ given = {"securityGroupId"}
            /\ Continue("balancer")
            /\ security' = "user"
            /\ UNCHANGED <<registered, targetGroup, listening>>
         \/ /\ given \subseteq {"args"}
            /\ Continue("balancer")
            /\ security' = "default"
            /\ registered' = Append(registered, "SecurityGroup")
            /\ UNCHANGED <<targetGroup, listening>>

RegisterBalancer ==
  /\ step = "balancer"
  /\ Continue("targetGroup")
  /\ registered' = Append(registered, "LoadBalancer")
  /\ UNCHANGED <<security, targetGroup, listening>>

BothGroupsGiven ==
  /\ balancerRequest.defaultTargetGroup # Undefined
  /\ balancerRequest.defaultTargetGroupPort # Undefined

RegisterTargetGroup ==
  /\ step = "targetGroup"
  /\ IF BothGroupsGiven
     THEN Throw
     ELSE /\ Continue("listening")
          /\ targetGroup' = DefaultTargetGroup
          /\ registered' = Append(registered, "TargetGroup")
          /\ UNCHANGED <<security, listening>>

(* The listener, or an implied one.                                        *)
RegisterListener ==
  /\ step = "listening"
  /\ balancerRequest.listeners = Undefined
  /\ Continue("done")
  /\ listening' = <<Listener(LoneListenerDefaults, balancerRequest.listener)>>
  /\ registered' = Append(registered, "Listener")
  /\ UNCHANGED <<security, targetGroup>>

(* listeners.map, one at a time.                                           *)
RegisterNextListener ==
  /\ step = "listening"
  /\ balancerRequest.listeners # Undefined
  /\ IF Len(listening) = Len(balancerRequest.listeners)
     THEN /\ Continue("done")
          /\ UNCHANGED <<registered, listening>>
     ELSE LET listener == balancerRequest.listeners[Len(listening) + 1]
          IN  /\ listening' =
                   Append(listening, Listener(ListenerDefaults(listener), listener))
              /\ registered' = Append(registered, "Listener")
              /\ UNCHANGED <<balancerRequest, step>>
  /\ UNCHANGED <<security, targetGroup>>

Next ==
  \/ ChooseSubnets \/ CheckListeners \/ ChooseSecurityGroup \/ RegisterBalancer
  \/ RegisterTargetGroup \/ RegisterListener \/ RegisterNextListener

Spec == Init /\ [][Next]_balancerVars
-----------------------------------------------------------------------------
(* Properties.                                                             *)

(* Every variable has its type.                                            *)
TypeOK ==
  /\ balancerRequest \in Requests
  /\ step \in {"subnets", "listeners", "security", "balancer", "targetGroup",
               "listening", "done", "failed"}
  /\ registered \in Seq({"SecurityGroup", "LoadBalancer", "TargetGroup", "Listener"})
  /\ security \in Optional({"user", "default"})
  /\ targetGroup \in Optional(Endpoint)
  /\ listening \in Seq([port : Ports, protocol : Protocols, toDefaultGroup : BOOLEAN])

StatesEndpoint(listener) ==
  listener # Undefined /\ (listener.port # Undefined \/ listener.protocol # Undefined)

(* The lone listener of an application balancer and the default group,     *)
(* each resolved by a merge of its own, speak the same protocol on the     *)
(* same port: what reaches the listener is forwarded in the form in which  *)
(* it came.  That is asked where neither the group nor, beside a listener  *)
(* with a port or a protocol, defaultTargetGroupPort is given: the code    *)
(* gives the group the listener's port there too, against the description  *)
(* of the argument in provider/pkg/schemagen/lb.go:82.                     *)
ListenerAndGroupAgree ==
  step = "done" /\ IsApplication
    /\ balancerRequest.listeners = Undefined
    /\ balancerRequest.defaultTargetGroup = Undefined
    /\ (balancerRequest.defaultTargetGroupPort = Undefined
          \/ ~StatesEndpoint(balancerRequest.listener))
    => [port |-> listening[1].port, protocol |-> listening[1].protocol] = targetGroup

(* The input of the k-th registered listener.                              *)
InputOf(k) ==
  IF balancerRequest.listeners = Undefined THEN balancerRequest.listener
                                           ELSE balancerRequest.listeners[k]

(* A listener of an application balancer that is given a port or a         *)
(* protocol gets the other to match, as the only one or as one of several, *)
(* whatever port the target group is given.                                *)
HttpsIsOn443 ==
  IsApplication =>
    \A k \in DOMAIN listening :
      /\ InputOf(k) # Undefined
      /\ \/ InputOf(k).port = 443 /\ InputOf(k).protocol = Undefined
         \/ InputOf(k).port = Undefined /\ InputOf(k).protocol = "HTTPS"
      => listening[k].port = 443 /\ listening[k].protocol = "HTTPS"

(* A refusal leaves no target group and no listener behind, and it leaves  *)
(* a balancer behind for one reason only.                                  *)
LateRefusalIsTheGroups ==
  step = "failed" =>
    /\ {"TargetGroup", "Listener"} \cap {registered[i] : i \in DOMAIN registered} = {}
    /\ \A i \in DOMAIN registered : registered[i] = "LoadBalancer" => BothGroupsGiven

(* The listener whose port and protocol stand in for those of the group.   *)
LeadListener ==
  IF balancerRequest.listeners = Undefined THEN balancerRequest.listener
  ELSE IF balancerRequest.listeners = <<>> THEN Undefined
  ELSE balancerRequest.listeners[1]

(* Where getDefaultProtocol comes to look at defaultTargetGroupPort.       *)
PortIsConsulted ==
  IsApplication =>
    /\ ~StatesEndpoint(LeadListener)
    /\ balancerRequest.listeners # Undefined => Len(balancerRequest.listeners) # 1

(* With two arguments that exclude each other the component is refused.    *)
(* The ports and protocols that listeners and group are given, the         *)
(* registered listeners and group have; defaultTargetGroupPort, the group  *)
(* has wherever getDefaultProtocol comes to look at it, and always under a *)
(* network balancer.  An application balancer drops it for a listener with *)
(* a port or a protocol, and for a list of one: of that nothing is asked.  *)
GivenIsKept ==
  step = "done" =>
    /\ Cardinality(balancerRequest.subnetArgs) <= 1
    /\ \A k \in DOMAIN listening :
         InputOf(k) # Undefined =>
           /\ InputOf(k).port \in {Undefined, listening[k].port}
           /\ InputOf(k).protocol \in {Undefined, listening[k].protocol}
    /\ (balancerRequest.listener # Undefined =>
          /\ Len(listening) = 1
          /\ InputOf(1) = balancerRequest.listener)
    /\ (balancerRequest.defaultTargetGroup # Undefined =>
          /\ balancerRequest.defaultTargetGroup.port \in {Undefined, targetGroup.port}
          /\ balancerRequest.defaultTargetGroupPort = Undefined)
    /\ (balancerRequest.defaultTargetGroupPort # Undefined /\ PortIsConsulted =>
          targetGroup.port = balancerRequest.defaultTargetGroupPort)
=============================================================================
