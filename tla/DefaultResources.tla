-------------------------- MODULE DefaultResources --------------------------
(***************************************************************************)
(* The resources that a component makes, reuses or leaves out as its       *)
(* arguments say: log groups, buckets and roles.  Each helper either       *)
(* throws, or returns whether a resource is created and by what identity   *)
(* it is known to the rest of the component.                               *)
(*                                                                         *)
(* An ARN is the sequence of its parts between colons, a part the sequence *)
(* of its parts between slashes.                                           *)
(***************************************************************************)
EXTENDS Integers, Sequences

CONSTANTS
  Regions, Accounts,
  Undefined

Optional(S) == S \cup {Undefined}

Part(name) == <<name>>

(* parseArn, split in the check and the result.                            *)
ArnIsValid(arn) ==
  /\ Len(arn) \in {6, 7}
  /\ arn[1] = Part("arn")

ParseArn(arn) ==
  LET typed == Len(arn) = 7 \/ Len(arn[6]) > 1
  IN  [service |-> arn[3], region |-> arn[4],
       resourceType |-> CASE Len(arn) = 7 -> arn[6]
                          [] Len(arn) = 6 /\ typed -> Part(arn[6][1])
                          [] OTHER -> Undefined,
       resourceId |-> CASE Len(arn) = 7 -> arn[7]
                        [] Len(arn) = 6 /\ typed -> Tail(arn[6])
                        [] OTHER -> arn[6]]

-----------------------------------------------------------------------------
(* Log groups.  An identity is [arn], [name, region], or both; one that    *)
(* fails in idFromArn fails when it is read, not when the helper returns.  *)

BuildArnSwapped(name, region, account) ==
  <<Part("arn"), Part("aws"), Part("logs"), Part(account), Part(region),
    Part("log-group"), name>>
BuildArn(name, region, account) ==
  <<Part("arn"), Part("aws"), Part("logs"), Part(region), Part(account),
    Part("log-group"), name>>

IsLogGroupArn(arn) ==
  /\ ArnIsValid(arn)
  /\ ParseArn(arn).service = Part("logs")
  /\ ParseArn(arn).resourceType = Part("log-group")

IdFromArn(arn) ==
  [arn |-> arn, logGroupName |-> ParseArn(arn).resourceId,
   logGroupRegion |-> ParseArn(arn).region]

(* What a helper returns.                                                  *)
Throws == [outcome |-> "throws", arn |-> Undefined]
Nothing == [outcome |-> "nothing", arn |-> Undefined]
Existing(arn) == [outcome |-> "existing", arn |-> arn]
Created == [outcome |-> "created", arn |-> Undefined]

(* requiredLogGroup: inputs are Undefined or have existing and args.       *)
RequiredLogGroup(inputs, providerRegion, account) ==
  IF inputs = Undefined \/ inputs.existing = Undefined THEN Created
  ELSE LET existing == inputs.existing
           region == IF existing.region = Undefined THEN providerRegion
                                                    ELSE existing.region
       IN  CASE inputs.args -> Throws
             [] ~inputs.args /\ existing.arn # Undefined -> Existing(existing.arn)
             [] ~inputs.args /\ existing.arn = Undefined
                  /\ existing.name # Undefined ->
                  Existing(BuildArn(existing.name, region, account))
             [] OTHER -> Throws

DefaultLogGroup(inputs, providerRegion, account) ==
  IF inputs # Undefined /\ inputs.skip
  THEN Nothing ELSE RequiredLogGroup(inputs, providerRegion, account)

OptionalLogGroup(inputs, providerRegion, account) ==
  IF inputs = Undefined \/ ~inputs.enable
  THEN Nothing ELSE RequiredLogGroup(inputs, providerRegion, account)

-----------------------------------------------------------------------------
(* Buckets.                                                                *)

S3Arn(name) ==
  <<Part("arn"), Part("aws"), Part("s3"), Part(""), Part(""), name>>

(* `arn:aws:::` and the name: the service is left empty.                   *)
ArnFromName(name) ==
  <<Part("arn"), Part("aws"), Part(""), Part(""), Part(""), name>>

NameFromArn(arn) == ParseArn(arn).resourceId

RequiredBucket(inputs) ==
  IF inputs = Undefined \/ inputs.existing = Undefined THEN Created
  ELSE LET existing == inputs.existing
       IN  CASE inputs.args -> Throws
             [] ~inputs.args /\ existing.arn # Undefined -> Existing(existing.arn)
             [] ~inputs.args /\ existing.arn = Undefined
                  /\ existing.name # Undefined -> Existing(ArnFromName(existing.name))
             [] OTHER -> Throws

-----------------------------------------------------------------------------
(* Roles: inputs are Undefined or have skip, roleArn and args, each given  *)
(* or not.  The arguments are checked before skip is looked at.            *)
DefaultRoleWithPolicies(inputs) ==
  CASE inputs = Undefined -> "created"
    [] inputs # Undefined /\ inputs.roleArn /\ inputs.args -> "throws"
    [] inputs # Undefined /\ ~(inputs.roleArn /\ inputs.args) /\ inputs.skip ->
         "nothing"
    [] inputs # Undefined /\ ~inputs.args /\ ~inputs.skip /\ inputs.roleArn ->
         "existing"
    [] OTHER -> "created"
=============================================================================
