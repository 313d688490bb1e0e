----------------------------- MODULE ApiGateway -----------------------------
(***************************************************************************)
(* awsx-classic apigateway.API: from a list of routes, one Swagger         *)
(* document and the resources behind it.                                   *)
(*                                                                         *)
(* The constructor writes the routes into the document one after the       *)
(* other, registering functions, roles, a bucket and its objects, links    *)
(* and authorizers on the way, and then registers the RestApi, its policy, *)
(* deployment, permissions and stage.  The additional routes are written   *)
(* later, in an apply, once the values the document reads are known.  The  *)
(* engine creates what is registered as soon as what it reads exists.      *)
(*                                                                         *)
(* A path is a sequence of its parts, slashes included; the name of an     *)
(* authorizer is a pair, <<"authorizer", n>> for a default one.  A         *)
(* resource is a triple of the route that registered it (0 for the API     *)
(* itself), its type and its name.                                         *)
(***************************************************************************)
EXTENDS Integers, Sequences, FiniteSets

CONSTANTS
  Requests,     \* the arguments considered
  MaxFailures,  \* bound on the creations that AWS refuses
  Undefined

ASSUME FailuresAssumption == MaxFailures \in Nat

IsList(s) == s \in Seq({s[i] : i \in DOMAIN s})

(* What the types of the arguments say; a route of raw data has no options.*)
IsRoute(r, authorizers) ==
  /\ r.kind \in {"handler", "static", "integration", "raw"}
  /\ IsList(r.path)
  /\ IsList(r.authorizers) /\ r.apiKeyRequired \in BOOLEAN
  /\ \A i \in DOMAIN r.authorizers : r.authorizers[i] \in DOMAIN authorizers
  /\ r.kind = "static" => IsList(r.files)
  /\ r.kind = "raw" => r.authorizers = <<>> /\ ~r.apiKeyRequired

ASSUME RequestAssumption ==
  \A q \in Requests :
    /\ q.swaggerString \in {"none", "valid", "invalid"}
    /\ \A routes \in {q.routes, q.additionalRoutes} :
         routes # Undefined =>
           /\ IsList(routes)
           /\ \A i \in DOMAIN routes : IsRoute(routes[i], q.authorizers)

VARIABLES
  request,        \* the arguments
  step,           \* of createAPI and of the apply
  next,           \* the route to write next
  tasks,          \* what remains to be done for the route before it
  security,       \* of the operation under construction
  authorizerName, \* the names written back to the authorizers
  apiAuthorizers, \* the authorizer of each name
  definitions,    \* the document's securityDefinitions
  paths,          \* the document's operations, by path and method
  swaggerLambdas, \* the handlers, by path and method
  registered, created, refused, failures

document == <<security, authorizerName, apiAuthorizers, definitions, paths,
              swaggerLambdas>>
program == <<request, step, next, tasks, document, registered>>
engine == <<created, refused, failures>>
vars == <<program, engine>>

-----------------------------------------------------------------------------
(* Paths, and the methods that matter here.                                *)
Normalized(path) ==
  IF path # <<>> /\ Head(path) = "/" THEN path ELSE <<"/">> \o path

ServerPath(path) ==
  IF path # <<>> /\ path[Len(path)] = "/" THEN path ELSE Append(path, "/")

ProxyPath(path) == Append(ServerPath(path), "{proxy+}")

SwaggerMethod(method) ==
  CASE method = "GET" -> "get"
    [] method = "POST" -> "post"
    [] method = "ANY" -> "x-amazon-apigateway-any-method"
    [] OTHER -> Undefined

-----------------------------------------------------------------------------
(* What writing a route does, in order.                                    *)
Throw == <<[do |-> "throw"]>>

Register(resource) == <<[do |-> "register", resource |-> resource]>>

Options(r, n) ==
  [i \in DOMAIN r.authorizers |->
     [do |-> "authorize", authorizer |-> r.authorizers[i], route |-> n]]
    \o (IF r.apiKeyRequired THEN <<[do |-> "apiKey"]>> ELSE <<>>)

Operation(kind, n, reads) == [kind |-> kind, route |-> n, reads |-> reads]

Add(path, method, operation) ==
  <<[do |-> "add", path |-> path, method |-> method, operation |-> operation]>>

(* addEventHandlerRouteToSwaggerSpec.                                      *)
HandlerTasks(r, n, path) ==
  LET method == SwaggerMethod(r.method)
      function == <<n, "Function", <<method, path>>>>
      own == r.eventHandler = "callback"
  IN  IF method = Undefined THEN Throw
      ELSE (IF own THEN Register(function) ELSE <<>>)
             \o Options(r, n)
             \o Add(path, r.method,
                    Operation("lambda", n, IF own THEN {function} ELSE {}))

(* addStaticRouteToSwaggerSpec.                                            *)
Bucket == <<0, "Bucket", <<>>>>
BucketOf == IF request.staticRoutesBucket THEN {} ELSE {Bucket}

RoleTasks(role) ==
  Register(role) \o Register(<<role[1], "RolePolicyAttachment", role[3]>>)

FileTasks(r, n, path) ==
  LET key == <<"get", path>>
      role == <<n, "Role", key>>
  IN  RoleTasks(role)
        \o Register(<<n, "BucketObject", key>>)
        \o Options(r, n)
        \o Add(path, "GET", Operation("object", n, {role} \cup BucketOf))

DirectoryTasks(r, n, path) ==
  LET key == <<"get", ServerPath(path)>>
      role == <<n, "Role", key>>
      reads == {role} \cup BucketOf
      child(file) == [do |-> "child", file |-> file, key |-> key, route |-> n,
                      path |-> ServerPath(path), reads |-> reads]
  IN  RoleTasks(role)
        \o [i \in DOMAIN r.files |-> child(r.files[i])]
        \o Options(r, n)
        \o Add(ProxyPath(path), "ANY", Operation("object", n, reads))

StaticTasks(r, n, path) ==
  (IF request.staticRoutesBucket THEN <<>> ELSE Register(Bucket))
    \o CASE r.localPath = "file" -> FileTasks(r, n, path)
         [] r.localPath = "directory" -> DirectoryTasks(r, n, path)
         [] OTHER -> Throw

(* addIntegrationRouteToSwaggerSpec; the target may be a provider, such as *)
(* a listener, which makes a link.                                         *)
IntegrationTasks(r, n, path) ==
  LET link == <<n, "VpcLink", <<"link", path>>>>
      own == r.target = "provider"
      operation == Operation("proxy", n, IF own THEN {link} ELSE {})
  IN  (IF own THEN Register(link) ELSE <<>>)
        \o Options(r, n) \o Add(ServerPath(path), "ANY", operation)
        \o Options(r, n) \o Add(ProxyPath(path), "ANY", operation)

(* addRawDataRouteToSwaggerSpec.                                           *)
RawDataTasks(r, n, path) ==
  IF SwaggerMethod(r.method) = Undefined THEN Throw
  ELSE Add(path, r.method, Operation("raw", n, {}))

TasksOf(r, n, path) ==
  CASE r.kind = "handler" -> HandlerTasks(r, n, path)
    [] r.kind = "static" -> StaticTasks(r, n, path)
    [] r.kind = "integration" -> IntegrationTasks(r, n, path)
    [] r.kind = "raw" -> RawDataTasks(r, n, path)

-----------------------------------------------------------------------------
Put(f, k, v) == [x \in DOMAIN f \cup {k} |-> IF x = k THEN v ELSE f[x]]

Empty == [x \in {} |-> Undefined]

Init ==
  /\ request \in Requests
  /\ step = "start"
  /\ next = 1
  /\ tasks = <<>>
  /\ security = {}
  /\ authorizerName = Empty
  /\ apiAuthorizers = Empty
  /\ definitions = Empty
  /\ paths = Empty
  /\ swaggerLambdas = Empty
  /\ registered = {}
  /\ created = {}
  /\ refused = {}
  /\ failures = 0

(* A document of the user's own takes the place of every route.            *)
Start ==
  /\ step = "start"
  /\ step' = CASE request.swaggerString # "none" -> "api"
               [] request.routes = Undefined /\ request.additionalRoutes = Undefined
                    -> "failed"
               [] OTHER -> "routes"
  /\ UNCHANGED <<request, next, tasks, document, registered, engine>>

GivenRoutes == IF request.routes = Undefined THEN <<>> ELSE request.routes
AdditionalRoutes ==
  IF request.additionalRoutes = Undefined THEN <<>> ELSE request.additionalRoutes
AllRoutes == GivenRoutes \o AdditionalRoutes

IsWriting == step \in {"routes", "additional"}

(* Additional routes are not normalized.                                   *)
PathOf(n) ==
  IF n <= Len(GivenRoutes) THEN Normalized(AllRoutes[n].path) ELSE AllRoutes[n].path

LastRoute == IF step = "routes" THEN Len(GivenRoutes) ELSE Len(AllRoutes)

TakeRoute ==
  /\ IsWriting
  /\ tasks = <<>>
  /\ next <= LastRoute
  /\ tasks' = TasksOf(AllRoutes[next], next, PathOf(next))
  /\ next' = next + 1
  /\ UNCHANGED <<request, step, document, registered, engine>>

IsNextTask(do) == IsWriting /\ tasks # <<>> /\ Head(tasks).do = do

(* In the constructor the program ends; in the apply the document is lost. *)
Fail ==
  /\ step' = IF step = "routes" THEN "failed" ELSE "unwritten"
  /\ tasks' = <<>>
  /\ UNCHANGED <<request, next, document, registered, engine>>

RefuseRoute == IsNextTask("throw") /\ Fail

RegisterResource ==
  /\ IsNextTask("register")
  /\ registered' = registered \cup {Head(tasks).resource}
  /\ tasks' = Tail(tasks)
  /\ UNCHANGED <<request, step, next, document, engine>>

(* walk: one file of a directory, with an operation if it is the index.    *)
IndexTasks(child) ==
  Options(AllRoutes[child.route], child.route)
    \o <<[do |-> "index", path |-> child.path, route |-> child.route,
          reads |-> child.reads]>>

WalkFile ==
  /\ IsNextTask("child")
  /\ LET child == Head(tasks)
     IN  /\ registered' =
              registered \cup {<<child.route, "BucketObject", Append(child.key, child.file)>>}
         /\ tasks' = (IF child.file = AllRoutes[child.route].index
                      THEN IndexTasks(child) ELSE <<>>) \o Tail(tasks)
  /\ UNCHANGED <<request, step, next, document, engine>>

(* addAuthorizersToSwagger.  Routes share authorizers, which are compared  *)
(* by identity; the apply sees copies, one for each route, made before the *)
(* constructor named the originals.                                        *)
CopyForEach(authorizer, n) == <<authorizer, n>>
IdentityOf(authorizer, n) ==
  <<authorizer, IF n <= Len(GivenRoutes) THEN 0 ELSE n>>

AuthorizerResources(authorizer, n, name) ==
  IF request.authorizers[authorizer].handler = "callback"
  THEN {<<n, kind, name>> :
          kind \in {"AuthorizerFunction", "AuthorizerRole", "AuthorizerPolicy"}}
  ELSE {}

NameOf(authorizer, identity) ==
  LET name == IF identity \in DOMAIN authorizerName
              THEN authorizerName[identity]
              ELSE request.authorizers[authorizer].name
  IN  IF name = Undefined
      THEN <<"authorizer", Cardinality(DOMAIN definitions)>> ELSE name

AddAuthorizer ==
  /\ IsNextTask("authorize")
  /\ LET authorizer == Head(tasks).authorizer
         n == Head(tasks).route
         identity == IdentityOf(authorizer, n)
         name == NameOf(authorizer, identity)
         resources == AuthorizerResources(authorizer, n, name)
         reads == {r \in resources : r[2] # "AuthorizerPolicy"}
     IN  IF name \in DOMAIN apiAuthorizers /\ apiAuthorizers[name] # identity
         THEN Fail
         ELSE /\ authorizerName' = Put(authorizerName, identity, name)
              /\ apiAuthorizers' = Put(apiAuthorizers, name, identity)
              /\ security' = security \cup {name}
              /\ IF name \in DOMAIN definitions
                 THEN UNCHANGED <<definitions, registered>>
                 ELSE /\ definitions' = Put(definitions, name,
                                          [of |-> identity, reads |-> reads])
                      /\ registered' = registered \cup resources
              /\ tasks' = Tail(tasks)
              /\ UNCHANGED <<request, step, next, paths, swaggerLambdas, engine>>

(* addAPIkeyToSecurityDefinitions.                                         *)
ApiKey == <<"api_key", 0>>

AddApiKey ==
  /\ IsNextTask("apiKey")
  /\ IF ApiKey \in DOMAIN definitions /\ definitions[ApiKey].of # ApiKey
     THEN Fail
     ELSE /\ definitions' = Put(definitions, ApiKey, [of |-> ApiKey, reads |-> {}])
          /\ security' = security \cup {ApiKey}
          /\ tasks' = Tail(tasks)
          /\ UNCHANGED <<request, step, next, authorizerName, apiAuthorizers,
                         paths, swaggerLambdas, registered, engine>>

Secured(operation) ==
  [kind |-> operation.kind, route |-> operation.route, reads |-> operation.reads,
   security |-> security]

At(f, path) == IF path \in DOMAIN f THEN f[path] ELSE Empty

(* addSwaggerOperation, and the handler's entry in swaggerLambdas.         *)
KeepFirst(f, path, method, value) ==
  IF path \in DOMAIN f /\ method \in DOMAIN f[path] THEN f
  ELSE Put(f, path, Put(At(f, path), method, value))
Entered(f, path, method, value) ==
  Put(f, path, Put(At(f, path), method, value))

AddOperation ==
  /\ IsNextTask("add")
  /\ LET task == Head(tasks)
     IN  /\ paths' = Entered(paths, task.path, SwaggerMethod(task.method),
                          Secured(task.operation))
         /\ swaggerLambdas' =
              IF task.operation.kind = "lambda"
              THEN Entered(swaggerLambdas, task.path, task.method, task.operation)
              ELSE swaggerLambdas
  /\ security' = {}
  /\ tasks' = Tail(tasks)
  /\ UNCHANGED <<request, step, next, authorizerName, apiAuthorizers, definitions,
                 registered, engine>>

(* The index of a directory takes the whole path.                          *)
AddIndex ==
  /\ IsNextTask("index")
  /\ LET operation == Operation("object", Head(tasks).route, Head(tasks).reads)
     IN  paths' = Put(paths, Head(tasks).path, Put(Empty, "get", Secured(operation)))
  /\ security' = {}
  /\ tasks' = Tail(tasks)
  /\ UNCHANGED <<request, step, next, authorizerName, apiAuthorizers, definitions,
                 swaggerLambdas, registered, engine>>

Written ==
  /\ IsWriting
  /\ tasks = <<>>
  /\ next > LastRoute
  /\ step' = IF step = "routes" THEN "api" ELSE "done"
  /\ UNCHANGED <<request, next, tasks, document, registered, engine>>

-----------------------------------------------------------------------------
(* The rest of createAPI.                                                  *)
RestApi == <<0, "RestApi", <<>>>>
RestApiPolicy == <<0, "RestApiPolicy", <<>>>>
Deployment == <<0, "Deployment", <<>>>>
Stage == <<0, "Stage", <<>>>>

(* createLambdaPermissions.                                                *)
Permission(path, method) == <<0, "Permission", <<method, path>>>>

Permissions ==
  UNION {{Permission(path, method) : method \in DOMAIN swaggerLambdas[path]} :
         path \in DOMAIN swaggerLambdas}

RegisterApi ==
  /\ step = "api"
  /\ registered' =
       registered \cup {RestApi, Deployment, Stage} \cup Permissions
         \cup (IF request.policy THEN {RestApiPolicy} ELSE {})
  /\ step' = CASE request.swaggerString = "valid" -> "done"
               [] request.swaggerString = "invalid" -> "unwritten"
               [] OTHER -> "waiting"
  /\ UNCHANGED <<request, next, tasks, document, engine>>

(* The values that the document reads.                                     *)
DocumentReads ==
  (UNION {UNION {paths[path][method].reads : method \in DOMAIN paths[path]} :
          path \in DOMAIN paths})
    \cup (UNION {definitions[name].reads : name \in DOMAIN definitions})

(* pulumi.all([swagger, additionalRoutes]).                                *)
StartAdditional ==
  /\ step = "waiting"
  /\ DocumentReads \subseteq created
  /\ step' = "additional"
  /\ UNCHANGED <<request, next, tasks, document, registered, engine>>

WriteRoute ==
  \/ TakeRoute \/ RefuseRoute \/ RegisterResource \/ WalkFile \/ AddAuthorizer
  \/ AddApiKey \/ AddOperation \/ AddIndex

Construct == Start \/ WriteRoute \/ Written \/ RegisterApi \/ StartAdditional

-----------------------------------------------------------------------------
(* The engine.  A resource waits for what its arguments read, and for its  *)
(* dependsOn.                                                              *)
LambdaOf(permission) ==
  swaggerLambdas[permission[3][2]][permission[3][1]].reads

OfDeployment == {RestApi, Deployment}
StageNeeds == {RestApi, Deployment} \cup Permissions

Needs(r) ==
  CASE r[2] = "RolePolicyAttachment" -> {<<r[1], "Role", r[3]>>}
    [] r[2] = "BucketObject" -> BucketOf
    [] r[2] = "AuthorizerPolicy" ->
         {<<r[1], "AuthorizerRole", r[3]>>, <<r[1], "AuthorizerFunction", r[3]>>}
    [] r[2] = "RestApi" -> DocumentReads
    [] r[2] = "RestApiPolicy" -> {RestApi}
    [] r[2] = "Deployment" -> {RestApi} \cup ({RestApiPolicy} \cap registered)
    [] r[2] = "Permission" -> {RestApi} \cup LambdaOf(r)
    [] r[2] = "Stage" -> StageNeeds
    [] OTHER -> {}

(* The body of the RestApi is known when both lists have been written.     *)
IsReady(r) ==
  /\ r \in registered \ (created \cup refused)
  /\ Needs(r) \subseteq created
  /\ r[2] = "RestApi" => step = "done"

(* A name that a route has registered before is taken.                     *)
IsTaken(r) ==
  \E q \in registered : q[1] < r[1] /\ q[2] = r[2] /\ q[3] = r[3]

Create(r) ==
  /\ IsReady(r)
  /\ ~IsTaken(r)
  /\ created' = created \cup {r}
  /\ UNCHANGED <<program, refused, failures>>

Refuse(r) ==
  /\ IsReady(r)
  /\ IF IsTaken(r) THEN UNCHANGED failures
     ELSE failures < MaxFailures /\ failures' = failures + 1
  /\ refused' = refused \cup {r}
  /\ UNCHANGED <<program, created>>

Engine == \E r \in registered : Create(r) \/ Refuse(r)

Next == Construct \/ Engine

Spec == Init /\ [][Next]_vars /\ WF_vars(Construct) /\ WF_vars(Engine)
-----------------------------------------------------------------------------
(* Properties.                                                             *)

(* Every variable has its type, and every name in the document is defined  *)
(* there.                                                                  *)
TypeOK ==
  /\ request \in Requests
  /\ step \in {"start", "routes", "api", "waiting", "additional", "done",
               "failed", "unwritten"}
  /\ next \in 1..(Len(AllRoutes) + 1)
  /\ DOMAIN apiAuthorizers \subseteq DOMAIN definitions
  /\ \A path \in DOMAIN paths : \A method \in DOMAIN paths[path] :
       paths[path][method].security \subseteq DOMAIN definitions
  /\ created \in SUBSET registered
  /\ refused \in SUBSET (registered \ created)
  /\ failures \in 0..MaxFailures

(* The operations a route stands for.  "If not prefixed with `/`, then a   *)
(* `/` will be added automatically to the beginning", to the routes that   *)
(* are not additional; "serve 'index.html' in response to a request on a   *)
(* directory", if the directory has it.                                    *)
GivenPath(n) ==
  LET path == AllRoutes[n].path
  IN  IF n <= Len(GivenRoutes) /\ (path = <<>> \/ path[1] # "/")
      THEN <<"/">> \o path ELSE path

IsDirectory(r) == r.kind = "static" /\ r.localPath = "directory"

HasIndex(r) == IsDirectory(r) /\ \E i \in DOMAIN r.files : r.files[i] = r.index

Any == "x-amazon-apigateway-any-method"

Claims(n) ==
  LET r == AllRoutes[n]
  IN  CASE r.kind \in {"handler", "raw"} ->
             {<<GivenPath(n), SwaggerMethod(r.method)>>}
        [] r.kind = "static" /\ ~IsDirectory(r) -> {<<GivenPath(n), "get">>}
        [] r.kind = "integration" ->
             {<<ServerPath(GivenPath(n)), Any>>, <<ProxyPath(GivenPath(n)), Any>>}
        [] IsDirectory(r) ->
             {<<ProxyPath(GivenPath(n)), Any>>}
               \cup (IF HasIndex(r)
                     THEN {<<ServerPath(GivenPath(n)), "get">>} ELSE {})

(* A later route takes over an operation, and a later directory with an    *)
(* index everything at its path.                                           *)
TakesOver(n, claim) ==
  \/ claim \in Claims(n)
  \/ HasIndex(AllRoutes[n]) /\ claim[1] = ServerPath(GivenPath(n))

Owner(claim) ==
  {n \in DOMAIN AllRoutes :
     /\ claim \in Claims(n)
     /\ \A m \in DOMAIN AllRoutes : m > n => ~TakesOver(m, claim)}

SecuredBy(n) ==
  LET r == AllRoutes[n]
  IN  {IdentityOf(r.authorizers[i], n) : i \in DOMAIN r.authorizers}
        \cup (IF r.apiKeyRequired THEN {ApiKey} ELSE {})

AllClaims == UNION {Claims(n) : n \in DOMAIN AllRoutes}

IsServed(path, method) == path \in DOMAIN paths /\ method \in DOMAIN paths[path]

(* An authorizer the user calls "api_key" is dropped when a route has      *)
(* asked for a key before, and is not considered.                          *)
NoneIsCalledApiKey ==
  \A a \in DOMAIN request.authorizers : request.authorizers[a].name # ApiKey

(* The document, written in two phases around the creation of what it      *)
(* reads, has the operations the routes of both lists ask for and no       *)
(* others: for each path and method the last route's, behind that route's  *)
(* authorizers, each of which has one definition of its own.               *)
DocumentIsAsGiven ==
  /\ TypeOK
  /\ step = "done" /\ request.swaggerString = "none" =>
      /\ \A path \in DOMAIN paths : \A method \in DOMAIN paths[path] :
           Owner(<<path, method>>) = {paths[path][method].route}
      /\ \A claim \in AllClaims :
           Owner(claim) # {} => IsServed(claim[1], claim[2])
      /\ NoneIsCalledApiKey =>
           \A path \in DOMAIN paths : \A method \in DOMAIN paths[path] :
             LET operation == paths[path][method]
             IN  {definitions[name].of : name \in operation.security}
                   = SecuredBy(operation.route)

(* "Pulumi [...] provisions the appropriate permissions on your behalf so  *)
(* that API Gateway can communicate with your Lambda": when the stage is   *)
(* up, everything its operations name exists, the function behind each may *)
(* be invoked for it, and the API's policy is in force.                    *)
StageIsReachable ==
  Stage \in created =>
    /\ step = "done"
    /\ RestApiPolicy \in registered => RestApiPolicy \in created
    /\ \A path \in DOMAIN paths : \A method \in DOMAIN paths[path] :
         LET operation == paths[path][method]
         IN  /\ operation.reads \subseteq created
             /\ operation.kind = "lambda" =>
                  \E given \in DOMAIN swaggerLambdas[path] :
                    /\ SwaggerMethod(given) = method
                    /\ swaggerLambdas[path][given].route = operation.route
                    /\ Permission(path, given) \in created

(* A route that is refused, in the constructor or in the apply, when other *)
(* routes' functions and objects are there already, leaves no API, nor one *)
(* that waits for the rest of its document.                                *)
ApiTypes == {"RestApi", "RestApiPolicy", "Deployment", "Permission", "Stage"}

RefusalLeavesNoApi ==
  step # "done" => \A r \in created : r[2] \notin ApiTypes

ApiIsWhole == StageIsReachable /\ RefusalLeavesNoApi

(* Arguments that are in order: methods and files exist, no two routes     *)
(* make a resource of one name, names of authorizers differ and are not    *)
(* the names given by default, and a named authorizer of an additional     *)
(* route is no other route's.                                              *)
MethodsAndFilesExist ==
  \A n \in DOMAIN AllRoutes :
    LET r == AllRoutes[n]
    IN  CASE r.kind \in {"handler", "raw"} -> SwaggerMethod(r.method) # Undefined
          [] r.kind = "static" -> r.localPath \in {"file", "directory"}
          [] OTHER -> TRUE

ResourceOf(n) ==
  LET r == AllRoutes[n]
  IN  CASE r.kind = "handler" /\ r.eventHandler = "callback" ->
             <<"function", GivenPath(n), SwaggerMethod(r.method)>>
        [] r.kind = "static" ->
             <<"role", IF IsDirectory(r) THEN ServerPath(GivenPath(n))
                       ELSE GivenPath(n)>>
        [] r.kind = "integration" /\ r.target = "provider" ->
             <<"link", GivenPath(n)>>
        [] OTHER -> <<"none", <<n>>>>

ResourcesDiffer ==
  \A m, n \in DOMAIN AllRoutes : m # n => ResourceOf(m) # ResourceOf(n)

Uses(a) ==
  {n \in DOMAIN AllRoutes :
     LET authorizers == AllRoutes[n].authorizers
     IN  \E i \in DOMAIN authorizers : authorizers[i] = a}

IsNamed(a) == request.authorizers[a].name # Undefined

AuthorizersDiffer ==
  /\ \A a \in DOMAIN request.authorizers :
       IsNamed(a) =>
         /\ request.authorizers[a].name[1] \notin {"authorizer", "api_key"}
         /\ \A n \in Uses(a) : n > Len(GivenRoutes) => Uses(a) = {n}
  /\ \A a, b \in DOMAIN request.authorizers :
       IsNamed(a) /\ a # b =>
         request.authorizers[a].name # request.authorizers[b].name

IsValid ==
  \/ request.swaggerString = "valid"
  \/ /\ request.swaggerString = "none"
     /\ request.routes # Undefined \/ request.additionalRoutes # Undefined
     /\ MethodsAndFilesExist
     /\ ResourcesDiffer
     /\ AuthorizersDiffer

(* An API whose arguments are in order comes up, and with it all that was  *)
(* registered, the additional routes' resources included, unless AWS       *)
(* refuses something: the apply, the body, the permissions and the stage   *)
(* do not wait for one another in a circle.                                *)
ApiComesUp ==
  IsValid ~> ((Stage \in created /\ registered \subseteq created) \/ failures > 0)
=============================================================================
