------------------------------- MODULE Trail -------------------------------
(***************************************************************************)
(* The Trail component: the constructor registers a bucket, its policy, a  *)
(* log group, a role and the trail, as its arguments ask, while the engine *)
(* creates what is registered as soon as what it waits for exists.  An     *)
(* identity the user gave as an ARN is parsed in an apply, when the        *)
(* resource that reads it is about to be created, and may be refused then. *)
(***************************************************************************)
EXTENDS DefaultResources, FiniteSets

CONSTANTS
  Requests,      \* [bucket, logs], the inputs of the two helpers
  NewBucket, NewGroup,  \* the names AWS gives to what is created
  HomeRegion, Account,
  MaxFailures    \* bound on the creations that AWS refuses

ASSUME HomeAssumption == HomeRegion \in Regions /\ Account \in Accounts
ASSUME FailuresAssumption == MaxFailures \in Nat

(* The name of a bucket has no slash: it is a single segment of its ARN.   *)
ASSUME BucketNameAssumption ==
  \A r \in Requests :
    r.bucket # Undefined /\ r.bucket.existing # Undefined
      /\ r.bucket.existing.name # Undefined
      => Len(r.bucket.existing.name) = 1

Kinds == {"Bucket", "BucketPolicy", "LogGroup", "LogsRole", "Trail"}

VARIABLES
  request,
  step,        \* of the constructor
  bucket,      \* what requiredBucket returned
  logs,        \* what optionalLogGroup returned
  registered,
  created,
  refused,     \* registered, but its inputs or AWS refused it
  failures

program == <<request, step, bucket, logs, registered>>
engine == <<created, refused, failures>>
vars == <<program, engine>>

-----------------------------------------------------------------------------
Init ==
  /\ request \in Requests
  /\ step = "bucket"
  /\ bucket = Nothing
  /\ logs = Nothing
  /\ registered = {}
  /\ created = {}
  /\ refused = {}
  /\ failures = 0

Throw ==
  /\ step' = "failed"
  /\ UNCHANGED <<request, bucket, logs, registered, engine>>

(* requiredBucket and createBucketCloudtrailPolicy.                        *)
RegisterBucket ==
  /\ step = "bucket"
  /\ LET result == RequiredBucket(request.bucket)
     IN  IF result = Throws THEN Throw
         ELSE /\ bucket' = result
              /\ registered' =
                   (IF result = Created THEN {"Bucket"} ELSE {}) \cup {"BucketPolicy"}
              /\ step' = "logGroup"
              /\ UNCHANGED <<request, logs, engine>>

RegisterLogGroup ==
  /\ step = "logGroup"
  /\ LET result == OptionalLogGroup(request.logs, HomeRegion, Account)
     IN  IF result = Throws THEN Throw
         ELSE /\ logs' = result
              /\ registered' =
                   registered \cup (IF result = Created THEN {"LogGroup"} ELSE {})
              /\ step' = "role"
              /\ UNCHANGED <<request, bucket, engine>>

(* The role is skipped unless the log group was created here.              *)
RegisterRole ==
  /\ step = "role"
  /\ LET inputs == [skip |-> logs # Created, roleArn |-> FALSE, args |-> FALSE]
     IN  registered' = registered
           \cup (IF DefaultRoleWithPolicies(inputs) = "created"
                 THEN {"LogsRole"} ELSE {})
  /\ step' = "trail"
  /\ UNCHANGED <<request, bucket, logs, engine>>

RegisterTrail ==
  /\ step = "trail"
  /\ registered' = registered \cup {"Trail"}
  /\ step' = "done"
  /\ UNCHANGED <<request, bucket, logs, engine>>

Construct == RegisterBucket \/ RegisterLogGroup \/ RegisterRole \/ RegisterTrail

-----------------------------------------------------------------------------
(* Inputs, parent and dependsOn: what a resource waits for.                *)
PolicyNeeds == {"Bucket"} \cap registered
TrailNeedsInputs == {"Bucket", "LogGroup", "LogsRole"} \cap registered
TrailNeedsAll == {"Bucket", "LogGroup", "LogsRole", "BucketPolicy"}
TrailNeeds == TrailNeedsInputs \cup {"BucketPolicy"}
Needs(r) ==
  CASE r = "BucketPolicy" -> PolicyNeeds
    [] r = "LogsRole" -> {"LogGroup"}
    [] r = "Trail" -> TrailNeeds
    [] OTHER -> {}

(* The identities that the inputs of a resource read.                      *)
BucketIsReadable == bucket # Created => ArnIsValid(bucket.arn)
LogsAreReadable == logs \notin {Created, Nothing} => IsLogGroupArn(logs.arn)
InputsAreReadable(r) ==
  CASE r = "BucketPolicy" -> BucketIsReadable
    [] r = "Trail" -> BucketIsReadable /\ LogsAreReadable
    [] OTHER -> TRUE

IsReady(r) ==
  /\ r \in registered \ (created \cup refused)
  /\ Needs(r) \subseteq created

Create(r) ==
  /\ IsReady(r)
  /\ InputsAreReadable(r)
  /\ created' = created \cup {r}
  /\ UNCHANGED <<program, refused, failures>>

(* An apply throws, or AWS refuses the resource.                           *)
Refuse(r) ==
  /\ IsReady(r)
  /\ \/ ~InputsAreReadable(r) /\ UNCHANGED failures
     \/ failures < MaxFailures /\ failures' = failures + 1
  /\ refused' = refused \cup {r}
  /\ UNCHANGED <<program, created>>

Engine == \E r \in Kinds : Create(r) \/ Refuse(r)

Next == Construct \/ Engine

Spec == Init /\ [][Next]_vars /\ WF_vars(Construct) /\ WF_vars(Engine)
-----------------------------------------------------------------------------
(* The trail's properties, from what the helpers returned.                 *)
PolicyArn == IF bucket = Created THEN S3Arn(NewBucket) ELSE bucket.arn
BucketName == IF bucket = Created THEN NewBucket ELSE NameFromArn(bucket.arn)
GroupId ==
  IF logs = Created THEN IdFromArn(BuildArn(NewGroup, HomeRegion, Account))
                    ELSE IdFromArn(logs.arn)

-----------------------------------------------------------------------------
(* Properties.                                                             *)

(* Every variable has its type.                                            *)
Outcomes == {"throws", "nothing", "existing", "created"}
TypeOK ==
  /\ request \in Requests
  /\ step \in {"bucket", "logGroup", "role", "trail", "done", "failed"}
  /\ bucket.outcome \in Outcomes \ {"throws"}
  /\ logs.outcome \in Outcomes \ {"throws"}
  /\ registered \in SUBSET Kinds
  /\ created \in SUBSET registered
  /\ refused \in SUBSET (registered \ created)
  /\ failures \in 0..MaxFailures

(* CloudTrail checks that it may write when the trail is created: by then  *)
(* the policy is on the bucket, whose own creation the policy waits for,   *)
(* whatever order the engine takes.  What the policy admits is not told    *)
(* apart: about a bucket given by name it is malformed (bucket.ts:79).     *)
TrailMayWrite ==
  "Trail" \in created =>
    /\ "BucketPolicy" \in created
    /\ bucket = Created => "Bucket" \in created

(* A refusal, in the constructor or in an apply, leaves no trail, but      *)
(* arguments of the log group are refused after the bucket.                *)
RefusalLeavesNoTrail ==
  /\ step = "failed" =>
       /\ "Trail" \notin registered /\ "LogGroup" \notin registered
       /\ registered # {} => request.logs # Undefined
  /\ "Trail" \in created => refused = {}

(* The bucket and the log group keep the identity the user gave, whichever *)
(* way the user gave it: names go to ARNs and back.                        *)
IdentityIsKept ==
  "Trail" \in created =>
    /\ bucket.outcome = "existing" =>
         LET existing == request.bucket.existing
         IN  IF existing.arn # Undefined THEN PolicyArn = existing.arn
                                         ELSE BucketName = existing.name
    /\ logs.outcome = "existing" =>
         LET existing == request.logs.existing
         IN  IF existing.arn # Undefined THEN GroupId.arn = existing.arn
             ELSE /\ GroupId.logGroupName = existing.name
                  /\ existing.region # Undefined =>
                       GroupId.logGroupRegion = Part(existing.region)

(* A trail whose arguments are in order is built in the end, as nothing    *)
(* waits in a circle or for what is never registered.                      *)
IsValid ==
  /\ RequiredBucket(request.bucket) # Throws
  /\ OptionalLogGroup(request.logs, HomeRegion, Account) # Throws
  /\ LET b == RequiredBucket(request.bucket)
         l == OptionalLogGroup(request.logs, HomeRegion, Account)
     IN  /\ b = Created \/ ArnIsValid(b.arn)
         /\ l \in {Created, Nothing} \/ IsLogGroupArn(l.arn)

TrailComesUp == IsValid ~> ("Trail" \in created \/ failures > 0)

(* The trail is made with the right to write or not at all, whatever is    *)
(* refused in the constructor, in an apply or by AWS.                      *)
TrailIsAllowed == TypeOK /\ TrailMayWrite /\ RefusalLeavesNoTrail
=============================================================================
