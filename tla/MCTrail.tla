------------------------------ MODULE MCTrail ------------------------------
(* Instances of Trail for TLC.                                             *)
EXTENDS Trail

Name == <<"logs">>

MCNewBucket == <<"new-bucket">>
MCNewGroup == <<"new-group">>

Existings(arns) ==
  [arn : {Undefined} \cup arns, name : {Undefined, Name},
   region : {Undefined, "west"}]

BucketArns ==
  {S3Arn(Name), ArnFromName(Name), <<>>, <<Part("aws")>>,
   Append(S3Arn(Name), Name) , S3Arn(<<"logs", "prefix">>)}

GroupArns ==
  {BuildArn(Name, "west", "a"), Append(BuildArn(Name, "west", "a"), Part("*")),
   S3Arn(Name), BuildArn(<<"aws", "lambda">>, "home", "a"),
   <<Part("arn"), Part("aws"), Part("logs"), Part("west"), Part("a"),
     <<"log-group", "logs">> >>}

MCRequests ==
  [bucket : {Undefined} \cup
            [existing : {Undefined} \cup Existings(BucketArns), args : BOOLEAN],
   logs : {Undefined} \cup
          [enable : BOOLEAN, existing : {Undefined} \cup Existings(GroupArns),
           args : BOOLEAN]]
=============================================================================
