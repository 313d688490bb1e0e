---------------------------- MODULE MCApiGateway ----------------------------
(* Instances of ApiGateway for TLC: pairs of routes that meet on a path,   *)
(* pairs that share authorizers, and the arguments of the API itself.      *)
EXTENDS ApiGateway

Base(kind, path, authorizers, apiKeyRequired) ==
  [kind |-> kind, path |-> path, authorizers |-> authorizers,
   apiKeyRequired |-> apiKeyRequired]

And(r, s) == [f \in DOMAIN r \cup DOMAIN s |-> IF f \in DOMAIN r THEN r[f] ELSE s[f]]

Handler(path, method, eventHandler, authorizers, key) ==
  And(Base("handler", path, authorizers, key),
      [method |-> method, eventHandler |-> eventHandler])

Static(path, localPath, files, index, authorizers) ==
  And(Base("static", path, authorizers, FALSE),
      [localPath |-> localPath, files |-> files, index |-> index])

Integration(path, target, authorizers, key) ==
  And(Base("integration", path, authorizers, key), [target |-> target])

Raw(path, method) == And(Base("raw", path, <<>>, FALSE), [method |-> method])

a == <<"a">>
A == <<"/", "a">>
ADir == <<"/", "a", "/">>

Files == <<"index.html", "other">>

-----------------------------------------------------------------------------
(* Routes that meet on a path, in both orders.                             *)
Handlers ==
  {Handler(path, method, "callback", <<>>, FALSE) : path \in {a, A}, method \in {"GET", "ANY"}}
    \cup {Handler(path, method, "existing", <<>>, FALSE) :
            path \in {A, ADir}, method \in {"GET", "POST"}}

Statics ==
  {Static(A, "file", <<>>, Undefined, <<>>), Static(a, "directory", Files, "index.html", <<>>),
   Static(ADir, "directory", <<"other">>, "index.html", <<>>)}

Others ==
  {Integration(path, target, <<>>, FALSE) : path \in {a, ADir}, target \in {"provider", "uri"}}
    \cup {Raw(a, "GET"), Raw(ADir, "POST")}

Meeting == Handlers \cup Statics \cup Others

Rivals ==
  {Handler(ADir, method, "existing", <<>>, FALSE) : method \in {"GET", "POST"}}
    \cup {Static(A, "directory", <<"index.html">>, "index.html", <<>>), Raw(ADir, "GET")}

NoAuthorizers == [x \in {} |-> Undefined]

Api(string, routes, additional, authorizers, bucket, policy) ==
  [swaggerString : string, routes : routes, additionalRoutes : additional,
   authorizers : authorizers, staticRoutesBucket : bucket, policy : policy]

OfPairs ==
  Api({"none"}, {<<x, y>> : x \in Meeting, y \in Meeting}
                  \cup {<<x, y, z>> : x \in Rivals, y \in Rivals, z \in Rivals},
      {Undefined}, {NoAuthorizers}, {TRUE}, {FALSE})
    \cup Api({"none"}, {<<x>> : x \in Meeting}, {<<y>> : y \in Others},
             {NoAuthorizers}, {TRUE}, {FALSE})

-----------------------------------------------------------------------------
(* Authorizers shared between routes, named or not.                        *)
Names == {Undefined, <<"named", 0>>, <<"authorizer", 1>>, <<"api_key", 0>>}

Authorizers ==
  {[x \in {"first", "second"} |->
      IF x = "first" THEN [name |-> n, handler |-> "callback"]
                     ELSE [name |-> m, handler |-> "cognito"]] :
     n \in Names, m \in {Undefined, <<"named", 0>>}}

Lists == {<<>>, <<"first">>, <<"first", "second">>, <<"second">>}

Guarded(method) ==
  {Handler(A, method, "existing", l, key) : l \in Lists, key \in BOOLEAN}

GuardedLater == {Integration(A, "uri", l, FALSE) : l \in Lists}

OfAuthorizers ==
  Api({"none"}, {<<x, y>> : x \in Guarded("GET"), y \in Guarded("POST")}, {Undefined},
      Authorizers, {TRUE}, {FALSE})
    \cup Api({"none"}, {<<x>> : x \in Guarded("GET")}, {<<y>> : y \in GuardedLater},
             Authorizers, {TRUE}, {FALSE})
    \cup Api({"none"}, {<<Static(A, "directory", Files, "index.html", l)>> : l \in Lists},
             {Undefined}, Authorizers, {TRUE}, {FALSE})

-----------------------------------------------------------------------------
(* The arguments of the API, and routes that are refused after another.    *)
First == Handler(A, "GET", "callback", <<>>, FALSE)

Refused ==
  {Handler(ADir, "TRACE", "callback", <<>>, FALSE), Raw(ADir, "TRACE"),
   Static(ADir, "missing", <<>>, Undefined, <<>>)}

OfApis ==
  Api({"none", "valid", "invalid"}, {Undefined, <<>>, <<First>>},
      {Undefined, <<>>, <<Integration(ADir, "provider", <<>>, FALSE)>>},
      {NoAuthorizers}, {TRUE}, BOOLEAN)
    \cup Api({"none"}, {<<First, x>> : x \in Refused \cup Statics}, {Undefined},
             {NoAuthorizers}, BOOLEAN, {FALSE})
    \cup Api({"none"}, {<<First>>}, {<<x>> : x \in {Raw(ADir, "TRACE"), Raw(ADir, "GET")}},
             {NoAuthorizers}, {TRUE}, {FALSE})

MCRequests == OfPairs \cup OfAuthorizers \cup OfApis
=============================================================================
