---------------------------- MODULE TrailProofs ----------------------------
(***************************************************************************)
(* That no trail is made without the right to write, and that a bucket or  *)
(* a log group the user has keeps its identity, for every set of requests. *)
(***************************************************************************)
EXTENDS Trail, TLAPS

(* What the constructor knows is what the helpers answered.                *)
Answered ==
  /\ bucket \in {Nothing, RequiredBucket(request.bucket)}
  /\ logs \in {Nothing, OptionalLogGroup(request.logs, HomeRegion, Account)}

(* What has been registered when the constructor is at a step.             *)
RegisteredSoFar ==
  /\ step = "bucket" => registered = {}
  /\ step = "logGroup" => "LogGroup" \notin registered
  /\ step \notin {"bucket", "failed"} =>
       /\ "BucketPolicy" \in registered
       /\ bucket = Created => "Bucket" \in registered
  /\ "Trail" \in registered => step = "done"

(* What exists had what it waits for; the trail, registered last, waits    *)
(* for all the rest.                                                       *)
Closed ==
  /\ "BucketPolicy" \in created => PolicyNeeds \subseteq created
  /\ "Trail" \in created => registered \subseteq created

IInv == TrailIsAllowed /\ Answered /\ RegisteredSoFar /\ Closed

-----------------------------------------------------------------------------
(* The answers of the helpers.                                             *)
IsAnswer(answer) == answer.outcome \in Outcomes \ {"throws"}

LEMMA AnswersOfHelpers ==
  ASSUME NEW inputs
  PROVE  /\ RequiredBucket(inputs) # Throws => IsAnswer(RequiredBucket(inputs))
         /\ OptionalLogGroup(inputs, HomeRegion, Account) # Throws
              => IsAnswer(OptionalLogGroup(inputs, HomeRegion, Account))
<1>1. \A arn : IsAnswer(Existing(arn)) /\ IsAnswer(Created) /\ IsAnswer(Nothing)
  BY DEF IsAnswer, Existing, Created, Nothing, Outcomes
<1>2. RequiredBucket(inputs) \in {Throws, Created}
        \/ \E arn : RequiredBucket(inputs) = Existing(arn)
  BY DEF RequiredBucket
<1>3. RequiredLogGroup(inputs, HomeRegion, Account) \in {Throws, Created}
        \/ \E arn : RequiredLogGroup(inputs, HomeRegion, Account) = Existing(arn)
  BY DEF RequiredLogGroup
<1>4. OptionalLogGroup(inputs, HomeRegion, Account)
        \in {Nothing, RequiredLogGroup(inputs, HomeRegion, Account)}
  BY DEF OptionalLogGroup
<1> QED BY <1>1, <1>2, <1>3, <1>4

LEMMA InitInv == Init => IInv
<1> SUFFICES ASSUME Init PROVE IInv OBVIOUS
<1>1. TrailIsAllowed
  BY FailuresAssumption
  DEF Init, TrailIsAllowed, TypeOK, TrailMayWrite, RefusalLeavesNoTrail, Nothing, Outcomes,
      Kinds
<1> QED BY <1>1 DEF Init, IInv, Answered, RegisteredSoFar, Closed

(* A throw in the constructor registers nothing more.                      *)
LEMMA ThrowInv ==
  ASSUME IInv, Throw, step \in {"bucket", "logGroup"},
         step = "logGroup" => request.logs # Undefined
  PROVE  IInv'
BY DEF IInv, TrailIsAllowed, TypeOK, TrailMayWrite, RefusalLeavesNoTrail, Answered,
       RegisteredSoFar, Closed, PolicyNeeds, Throw, engine

LEMMA RegisterBucketInv == IInv /\ RegisterBucket => IInv'
<1> SUFFICES ASSUME IInv, RegisterBucket PROVE IInv' OBVIOUS
<1> DEFINE result == RequiredBucket(request.bucket)
<1>1. CASE result = Throws
  BY <1>1, ThrowInv DEF RegisterBucket
<1>2. CASE result # Throws
  <2>1. IsAnswer(result)
    BY <1>2, AnswersOfHelpers
  <2>2. registered = {} /\ created = {} /\ refused = {}
    BY DEF IInv, TrailIsAllowed, TypeOK, RegisteredSoFar, RegisterBucket
  <2>3. /\ bucket' = result /\ step' = "logGroup"
        /\ registered' =
             (IF result = Created THEN {"Bucket"} ELSE {}) \cup {"BucketPolicy"}
        /\ UNCHANGED <<request, logs, created, refused, failures>>
    BY <1>2 DEF RegisterBucket, engine
  <2> HIDE DEF result
  <2>4. TypeOK'
    BY <2>1, <2>2, <2>3 DEF IInv, TrailIsAllowed, TypeOK, IsAnswer, Kinds
  <2>5. Answered'
    BY <2>3 DEF IInv, Answered, result
  <2> QED
    BY <2>2, <2>3, <2>4, <2>5
    DEF IInv, TrailIsAllowed, TrailMayWrite, RefusalLeavesNoTrail, RegisteredSoFar, Closed
<1> QED BY <1>1, <1>2

LEMMA RegisterLogGroupInv == IInv /\ RegisterLogGroup => IInv'
<1> SUFFICES ASSUME IInv, RegisterLogGroup PROVE IInv' OBVIOUS
<1> DEFINE result == OptionalLogGroup(request.logs, HomeRegion, Account)
<1>1. CASE result = Throws
  <2>1. request.logs # Undefined
    BY <1>1 DEF OptionalLogGroup, Nothing, Throws
  <2> QED BY <1>1, <2>1, ThrowInv DEF RegisterLogGroup
<1>2. CASE result # Throws
  <2>1. IsAnswer(result)
    BY <1>2, AnswersOfHelpers
  <2>2. /\ step = "logGroup" /\ logs' = result /\ step' = "role"
        /\ registered' = registered \cup (IF result = Created THEN {"LogGroup"} ELSE {})
        /\ UNCHANGED <<request, bucket, created, refused, failures>>
    BY <1>2 DEF RegisterLogGroup, engine
  <2> HIDE DEF result
  <2>3. TypeOK'
    BY <2>1, <2>2 DEF IInv, TrailIsAllowed, TypeOK, IsAnswer, Kinds
  <2>4. Answered'
    BY <2>2 DEF IInv, Answered, result
  <2> QED
    BY <2>2, <2>3, <2>4
    DEF IInv, TrailIsAllowed, TypeOK, TrailMayWrite, RefusalLeavesNoTrail, RegisteredSoFar,
        Closed, PolicyNeeds
<1> QED BY <1>1, <1>2

LEMMA RegisterRoleInv == IInv /\ RegisterRole => IInv'
<1> SUFFICES ASSUME IInv, RegisterRole PROVE IInv' OBVIOUS
<1>1. /\ step = "role" /\ step' = "trail"
      /\ registered' \in {registered, registered \cup {"LogsRole"}}
      /\ UNCHANGED <<request, bucket, logs, created, refused, failures>>
  BY DEF RegisterRole, engine
<1> QED
  BY <1>1
  DEF IInv, TrailIsAllowed, TypeOK, TrailMayWrite, RefusalLeavesNoTrail, Answered,
      RegisteredSoFar, Closed, PolicyNeeds, Kinds

LEMMA RegisterTrailInv == IInv /\ RegisterTrail => IInv'
<1> SUFFICES ASSUME IInv, RegisterTrail PROVE IInv' OBVIOUS
<1> QED
  BY DEF IInv, TrailIsAllowed, TypeOK, TrailMayWrite, RefusalLeavesNoTrail, Answered,
         RegisteredSoFar, Closed, PolicyNeeds, Kinds, RegisterTrail, engine

(* What is created now had what it waits for, the trail everything.        *)
LEMMA CreateInv == ASSUME IInv, NEW r \in Kinds, Create(r) PROVE IInv'
<1>1. /\ r \in registered \ (created \cup refused)
      /\ Needs(r) \subseteq created
      /\ created' = created \cup {r}
      /\ UNCHANGED <<request, step, bucket, logs, registered, refused, failures>>
  BY DEF Create, IsReady, program
<1>2. CASE r = "Trail"
  <2>1. step = "done" /\ registered \subseteq created'
    BY <1>1, <1>2
    DEF IInv, TrailIsAllowed, TypeOK, RegisteredSoFar, Kinds, Needs, TrailNeeds,
        TrailNeedsInputs
  <2>2. refused = {}
    BY <1>1, <2>1 DEF IInv, TrailIsAllowed, TypeOK
  <2> QED
    BY <1>1, <1>2, <2>1, <2>2
    DEF IInv, TrailIsAllowed, TypeOK, TrailMayWrite, RefusalLeavesNoTrail, Answered,
        RegisteredSoFar, Closed, PolicyNeeds
<1>3. CASE r # "Trail"
  <2>1. r = "BucketPolicy" => PolicyNeeds \subseteq created
    BY <1>1 DEF Needs
  <2> QED
    BY <1>1, <1>3, <2>1
    DEF IInv, TrailIsAllowed, TypeOK, TrailMayWrite, RefusalLeavesNoTrail, Answered,
        RegisteredSoFar, Closed, PolicyNeeds
<1> QED BY <1>2, <1>3

(* Nothing is left to be refused when the trail exists.                    *)
LEMMA RefuseInv == ASSUME IInv, NEW r \in Kinds, Refuse(r) PROVE IInv'
<1>1. /\ r \in registered \ (created \cup refused)
      /\ refused' = refused \cup {r}
      /\ UNCHANGED <<request, step, bucket, logs, registered, created>>
  BY DEF Refuse, IsReady, program
<1>2. failures' \in 0..MaxFailures
  BY FailuresAssumption DEF Refuse, IInv, TrailIsAllowed, TypeOK
<1>3. "Trail" \notin created
  BY <1>1 DEF IInv, Closed
<1> QED
  BY <1>1, <1>2, <1>3
  DEF IInv, TrailIsAllowed, TypeOK, TrailMayWrite, RefusalLeavesNoTrail, Answered,
      RegisteredSoFar, Closed, PolicyNeeds

LEMMA StepInv == IInv /\ [Next]_vars => IInv'
<1> SUFFICES ASSUME IInv, [Next]_vars PROVE IInv' OBVIOUS
<1>1. CASE Construct
  BY <1>1, RegisterBucketInv, RegisterLogGroupInv, RegisterRoleInv, RegisterTrailInv
  DEF Construct
<1>2. CASE Engine
  BY <1>2, CreateInv, RefuseInv DEF Engine
<1>3. CASE UNCHANGED vars
  BY <1>3
  DEF vars, program, engine, IInv, TrailIsAllowed, TypeOK, TrailMayWrite,
      RefusalLeavesNoTrail, Answered, RegisteredSoFar, Closed, PolicyNeeds
<1> QED BY <1>1, <1>2, <1>3 DEF Next

LEMMA Invariance == Spec => []IInv
BY InitInv, StepInv, PTL DEF Spec

(* A trail exists only with the policy that lets it write on a bucket that *)
(* exists, and a refusal, in the constructor (requiredBucket,              *)
(* optionalLogGroup), in an apply or by AWS, leaves no trail.              *)
THEOREM TrailAllowed == Spec => []TrailIsAllowed
<1>1. IInv => TrailIsAllowed
  BY DEF IInv
<1> QED BY <1>1, Invariance, PTL

-----------------------------------------------------------------------------
(* A name goes to an ARN and back.                                         *)
LEMMA BucketNameIsKept ==
  ASSUME NEW name, Len(name) = 1
  PROVE  NameFromArn(ArnFromName(name)) = name
<1> DEFINE arn == ArnFromName(name)
<1>1. Len(arn) = 6 /\ arn[6] = name
  BY DEF ArnFromName
<1> HIDE DEF arn
<1>2. /\ Len(arn) # 7
      /\ ~(Len(arn[6]) > 1)
  <2>1. Len(arn) # 7
    BY <1>1
  <2>2. Len(arn[6]) = 1
    BY <1>1, Zenon
  <2> QED BY <2>1, <2>2
<1>3. ParseArn(arn).resourceId = arn[6]
  BY <1>2 DEF ParseArn
<1> QED BY <1>1, <1>3 DEF NameFromArn, arn

LEMMA GroupNameIsKept ==
  ASSUME NEW name, NEW region, NEW account
  PROVE  LET id == IdFromArn(BuildArn(name, region, account))
         IN  id.logGroupName = name /\ id.logGroupRegion = Part(region)
<1> DEFINE arn == BuildArn(name, region, account)
<1>1. Len(arn) = 7 /\ arn[7] = name /\ arn[4] = Part(region)
  BY DEF BuildArn
<1> HIDE DEF arn
<1>2. ParseArn(arn).resourceId = arn[7] /\ ParseArn(arn).region = arn[4]
  BY <1>1 DEF ParseArn
<1> QED BY <1>1, <1>2 DEF IdFromArn, arn

LEMMA IdentityFollows == IInv => IdentityIsKept
<1> SUFFICES ASSUME IInv PROVE IdentityIsKept OBVIOUS
<1>1. ASSUME bucket.outcome = "existing"
      PROVE  LET existing == request.bucket.existing
             IN  IF existing.arn # Undefined THEN PolicyArn = existing.arn
                                             ELSE BucketName = existing.name
  <2> DEFINE existing == request.bucket.existing
  <2>1. bucket # Created /\ bucket = RequiredBucket(request.bucket) /\ bucket # Throws
    BY <1>1 DEF IInv, Answered, Created, Nothing, Throws
  <2>2. /\ request.bucket # Undefined /\ existing # Undefined
        /\ IF existing.arn # Undefined THEN bucket = Existing(existing.arn)
           ELSE existing.name # Undefined /\ bucket = Existing(ArnFromName(existing.name))
    BY <2>1 DEF RequiredBucket
  <2>3. CASE existing.arn # Undefined
    BY <2>1, <2>2, <2>3 DEF PolicyArn, Existing
  <2>4. CASE existing.arn = Undefined
    <3>1. Len(existing.name) = 1
      BY <2>2, <2>4, BucketNameAssumption DEF IInv, TrailIsAllowed, TypeOK
    <3> QED BY <2>1, <2>2, <2>4, <3>1, BucketNameIsKept DEF BucketName, Existing
  <2> QED BY <2>3, <2>4
<1>2. ASSUME logs.outcome = "existing"
      PROVE  LET existing == request.logs.existing
             IN  IF existing.arn # Undefined THEN GroupId.arn = existing.arn
                 ELSE /\ GroupId.logGroupName = existing.name
                      /\ existing.region # Undefined =>
                           GroupId.logGroupRegion = Part(existing.region)
  <2> DEFINE existing == request.logs.existing
             region == IF existing.region = Undefined THEN HomeRegion ELSE existing.region
  <2>1. /\ logs # Created /\ logs # Throws
        /\ logs = OptionalLogGroup(request.logs, HomeRegion, Account)
    BY <1>2 DEF IInv, Answered, Created, Nothing, Throws
  <2>2. logs = RequiredLogGroup(request.logs, HomeRegion, Account)
    BY <1>2, <2>1 DEF OptionalLogGroup, Nothing
  <2>3. IF existing.arn # Undefined THEN logs = Existing(existing.arn)
        ELSE logs = Existing(BuildArn(existing.name, region, Account))
    BY <2>1, <2>2 DEF RequiredLogGroup
  <2>4. GroupId = IdFromArn(logs.arn)
    BY <2>1 DEF GroupId
  <2>5. CASE existing.arn # Undefined
    BY <2>3, <2>4, <2>5 DEF IdFromArn, Existing
  <2>6. CASE existing.arn = Undefined
    <3>1. logs.arn = BuildArn(existing.name, region, Account)
      BY <2>3, <2>6 DEF Existing
    <3> QED BY <2>4, <2>6, <3>1, GroupNameIsKept
  <2> QED BY <2>5, <2>6
<1> QED BY <1>1, <1>2 DEF IdentityIsKept

(* The bucket and the log group that the user has are the ones the trail   *)
(* is given, whether named or by ARN (parseArn, bucket.ts, logs.ts).       *)
THEOREM IdentityKept == Spec => []IdentityIsKept
BY Invariance, IdentityFollows, PTL
=============================================================================
