-------------------------- MODULE ApiGatewayProofs --------------------------
(***************************************************************************)
(* That the API is whole, for every list of routes.  Nothing that needs    *)
(* the RestApi is created before the document is complete, after which     *)
(* nothing writes to it: what was created from it stays closed under what  *)
(* it names.  And whatever is written into the document, each operation of *)
(* a handler keeps an entry in swaggerLambdas, of which a permission is    *)
(* made.                                                                   *)
(*                                                                         *)
(* And that the document is as given: of each path and method the last     *)
(* claimant's operation, behind what its route asks for.                   *)
(***************************************************************************)
EXTENDS ApiGateway, TLAPS

(* What is created is closed under what the stage was made to wait for.    *)
Closed ==
  /\ RestApi \in created => DocumentReads \subseteq created
  /\ Deployment \in created => {RestApiPolicy} \cap registered \subseteq created
  /\ Stage \in created => StageNeeds \subseteq created

(* The operation at a path and method, if a handler's, has its entry.      *)
HasEntry(path, method) ==
  paths[path][method].kind = "lambda" =>
    /\ path \in DOMAIN swaggerLambdas
    /\ \E given \in DOMAIN swaggerLambdas[path] :
         /\ SwaggerMethod(given) = method
         /\ swaggerLambdas[path][given].route = paths[path][method].route

Handled ==
  \A path \in DOMAIN paths : \A method \in DOMAIN paths[path] : HasEntry(path, method)

IInv == RefusalLeavesNoApi /\ Closed /\ Handled

-----------------------------------------------------------------------------
(* Entered changes one value of one path.                                  *)
IsEntered(g, f, path, method, v) ==
  /\ DOMAIN g = DOMAIN f \cup {path}
  /\ DOMAIN g[path] = DOMAIN At(f, path) \cup {method}
  /\ g[path][method] = v
  /\ \A n \in DOMAIN At(f, path) : n # method => g[path][n] = f[path][n]
  /\ \A p \in DOMAIN f : p # path => g[p] = f[p]

LEMMA EnteredValue ==
  ASSUME NEW f, NEW path, NEW method, NEW v
  PROVE  IsEntered(Entered(f, path, method, v), f, path, method, v)
<1> DEFINE g == Entered(f, path, method, v)
           row == Put(At(f, path), method, v)
<1>1. /\ DOMAIN g = DOMAIN f \cup {path}
      /\ g[path] = row
      /\ \A p \in DOMAIN f : p # path => g[p] = f[p]
  BY DEF Entered, Put
<1>2. /\ DOMAIN row = DOMAIN At(f, path) \cup {method}
      /\ row[method] = v
      /\ \A m \in DOMAIN At(f, path) : m # method => row[m] = At(f, path)[m]
  BY DEF Put
<1>3. \A m \in DOMAIN At(f, path) : At(f, path)[m] = f[path][m]
  BY DEF At, Empty
<1> QED
  BY <1>1, <1>2, <1>3 DEF IsEntered

(* While the document is being written, nothing depends on it.             *)
LEMMA NothingYet ==
  ASSUME RefusalLeavesNoApi, step # "done"
  PROVE  RestApi \notin created /\ Deployment \notin created /\ Stage \notin created
BY DEF RefusalLeavesNoApi, ApiTypes, RestApi, Deployment, Stage

-----------------------------------------------------------------------------
LEMMA IInvInit == Init => IInv
<1> SUFFICES ASSUME Init PROVE IInv
  OBVIOUS
<1>1. created = {} /\ DOMAIN paths = {}
  BY DEF Init, Empty
<1> QED
  BY <1>1 DEF IInv, RefusalLeavesNoApi, Closed, Handled

(* A step of the constructor or of the apply that keeps the entries.       *)
LEMMA ConstructKeeps ==
  ASSUME IInv, step # "done", UNCHANGED engine, Handled'
  PROVE  IInv'
<1>1. RefusalLeavesNoApi'
  BY DEF IInv, RefusalLeavesNoApi, engine
<1>2. Closed'
  BY NothingYet DEF IInv, Closed, engine, RestApi, Deployment, Stage
<1> QED
  BY <1>1, <1>2 DEF IInv

(* A handler's operation comes with its entry; another operation takes     *)
(* none away.                                                              *)
LEMMA AddOperationKeeps ==
  ASSUME IInv, AddOperation
  PROVE  Handled'
<1> DEFINE task == Head(tasks)
           m == SwaggerMethod(task.method)
           value == Secured(task.operation)
           isLambda == task.operation.kind = "lambda"
<1>1. paths' = Entered(paths, task.path, m, value)
  BY DEF AddOperation
<1>2. swaggerLambdas' = IF isLambda
                        THEN Entered(swaggerLambdas, task.path, task.method, task.operation)
                        ELSE swaggerLambdas
  BY DEF AddOperation
<1>3. value.kind = task.operation.kind /\ value.route = task.operation.route
  BY DEF Secured
<1>4. IsEntered(paths', paths, task.path, m, value)
  BY <1>1, EnteredValue
<1>5. isLambda =>
        IsEntered(swaggerLambdas', swaggerLambdas, task.path, task.method, task.operation)
  BY <1>2, EnteredValue
<1> SUFFICES ASSUME NEW path \in DOMAIN paths', NEW method \in DOMAIN paths'[path],
                    paths'[path][method].kind = "lambda"
             PROVE  /\ path \in DOMAIN swaggerLambdas'
                    /\ \E given \in DOMAIN swaggerLambdas'[path] :
                         /\ SwaggerMethod(given) = method
                         /\ swaggerLambdas'[path][given].route
                              = paths'[path][method].route
  BY DEF Handled, HasEntry
<1> HIDE DEF task, m, value, isLambda
<1>6. CASE path = task.path /\ method = m
  <2>1. isLambda
    BY <1>3, <1>4, <1>6 DEF isLambda, IsEntered
  <2>2. swaggerLambdas'[path][task.method].route = paths'[path][method].route
    BY <1>3, <1>4, <1>5, <1>6, <2>1 DEF IsEntered
  <2>3. task.method \in DOMAIN swaggerLambdas'[path] /\ SwaggerMethod(task.method) = method
    BY <1>5, <1>6, <2>1 DEF m, IsEntered
  <2> QED
    BY <1>5, <1>6, <2>1, <2>2, <2>3 DEF IsEntered
<1>7. CASE ~(path = task.path /\ method = m)
  <2>1. /\ path \in DOMAIN paths /\ method \in DOMAIN paths[path]
        /\ paths'[path][method] = paths[path][method]
    BY <1>4, <1>7 DEF At, Empty, IsEntered
  <2>2. HasEntry(path, method)
    BY <2>1 DEF IInv, Handled
  <2>3. /\ path \in DOMAIN swaggerLambdas
        /\ \E given \in DOMAIN swaggerLambdas[path] :
             /\ SwaggerMethod(given) = method
             /\ swaggerLambdas[path][given].route = paths[path][method].route
    BY <2>1, <2>2 DEF HasEntry
  <2>4. PICK given \in DOMAIN swaggerLambdas[path] :
          /\ SwaggerMethod(given) = method
          /\ swaggerLambdas[path][given].route = paths[path][method].route
    BY <2>3
  <2>5. ~(path = task.path /\ given = task.method)
    BY <1>7, <2>4 DEF m
  <2>6. /\ path \in DOMAIN swaggerLambdas' /\ given \in DOMAIN swaggerLambdas'[path]
        /\ swaggerLambdas'[path][given] = swaggerLambdas[path][given]
    <3>1. CASE isLambda
      BY <1>5, <2>3, <2>4, <2>5, <3>1 DEF At, IsEntered
    <3>2. CASE ~isLambda
      BY <1>2, <2>3, <2>4, <3>2
    <3> QED
      BY <3>1, <3>2
  <2> QED
    BY <2>1, <2>4, <2>6
<1> QED
  BY <1>6, <1>7

(* An index is no handler's.                                               *)
LEMMA AddIndexKeeps ==
  ASSUME IInv, AddIndex
  PROVE  Handled'
<1> DEFINE p == Head(tasks).path
           value == Secured(Operation("object", Head(tasks).route, Head(tasks).reads))
<1>1. paths' = Put(paths, p, Put(Empty, "get", value)) /\ swaggerLambdas' = swaggerLambdas
  BY DEF AddIndex
<1>2. value.kind = "object"
  BY DEF Secured, Operation
<1>3. DOMAIN Put(Empty, "get", value) = {"get"} /\ Put(Empty, "get", value)["get"] = value
  BY DEF Put, Empty
<1>4. /\ DOMAIN paths' = DOMAIN paths \cup {p}
      /\ paths'[p] = Put(Empty, "get", value)
      /\ \A q \in DOMAIN paths : q # p => paths'[q] = paths[q]
  BY <1>1 DEF Put
<1> SUFFICES ASSUME NEW path \in DOMAIN paths', NEW method \in DOMAIN paths'[path]
             PROVE  HasEntry(path, method)'
  BY DEF Handled
<1> HIDE DEF p, value
<1>5. CASE path = p
  BY <1>2, <1>3, <1>4, <1>5 DEF HasEntry
<1>6. CASE path # p
  <2>1. path \in DOMAIN paths /\ paths'[path] = paths[path]
    BY <1>4, <1>6
  <2>2. HasEntry(path, method)
    BY <2>1 DEF IInv, Handled
  <2> QED
    BY <1>1, <2>1, <2>2 DEF HasEntry
<1> QED
  BY <1>5, <1>6

LEMMA ConstructStep == IInv /\ Construct => IInv'
<1> SUFFICES ASSUME IInv, Construct PROVE IInv'
  OBVIOUS
<1>1. step # "done" /\ UNCHANGED engine
  BY DEF Construct, Start, WriteRoute, TakeRoute, RefuseRoute, RegisterResource,
         WalkFile, AddAuthorizer, AddApiKey, AddOperation, AddIndex, Written,
         RegisterApi, StartAdditional, IsNextTask, IsWriting, Fail
<1>2. Handled'
  <2>1. CASE AddOperation
    BY <2>1, AddOperationKeeps
  <2>2. CASE AddIndex
    BY <2>2, AddIndexKeeps
  <2>3. CASE ~AddOperation /\ ~AddIndex
    <3>1. UNCHANGED <<paths, swaggerLambdas>>
      BY <2>3 DEF Construct, Start, WriteRoute, TakeRoute, RefuseRoute,
                  RegisterResource, WalkFile, AddAuthorizer, AddApiKey, Written,
                  RegisterApi, StartAdditional, Fail, document
    <3> QED
      BY <3>1 DEF IInv, Handled, HasEntry
  <2> QED
    BY <2>1, <2>2, <2>3
<1> QED
  BY <1>1, <1>2, ConstructKeeps

-----------------------------------------------------------------------------
(* Of the API's resources all but the RestApi wait for it, and it waits    *)
(* for the document.                                                       *)
LEMMA ApiIsLast ==
  ASSUME RefusalLeavesNoApi, NEW r, IsReady(r), r[2] \in ApiTypes
  PROVE  step = "done"
<1>1. CASE r[2] = "RestApi"
  BY <1>1 DEF IsReady
<1>2. CASE r[2] # "RestApi"
  <2>1. RestApi \in Needs(r)
    BY <1>2 DEF Needs, ApiTypes, StageNeeds
  <2>2. RestApi \in created
    BY <2>1 DEF IsReady
  <2> QED
    BY <2>2, NothingYet
<1> QED
  BY <1>1, <1>2

LEMMA CreateStep == ASSUME IInv, NEW r, Create(r) PROVE IInv'
<1>1. /\ IsReady(r)
      /\ created' = created \cup {r}
      /\ UNCHANGED <<step, paths, definitions, swaggerLambdas, registered>>
  BY DEF Create, program, document
<1>2. RefusalLeavesNoApi'
  BY <1>1, ApiIsLast DEF IInv, RefusalLeavesNoApi
<1>3. Needs(r) \subseteq created
  BY <1>1 DEF IsReady
<1>4. Closed'
  <2>1. DocumentReads' = DocumentReads /\ StageNeeds' = StageNeeds
    BY <1>1 DEF DocumentReads, StageNeeds, Permissions
  <2>2. r = RestApi => DocumentReads \subseteq created
    BY <1>3 DEF Needs, RestApi
  <2>3. r = Deployment => {RestApiPolicy} \cap registered \subseteq created
    BY <1>3 DEF Needs, Deployment
  <2>4. r = Stage => StageNeeds \subseteq created
    BY <1>3 DEF Needs, Stage
  <2>5. RestApi' = RestApi /\ Deployment' = Deployment /\ Stage' = Stage
          /\ RestApiPolicy' = RestApiPolicy
    BY DEF RestApi, Deployment, Stage, RestApiPolicy
  <2>6. Closed
    BY DEF IInv
  <2> HIDE DEF RestApi, Deployment, Stage, RestApiPolicy
  <2> QED
    BY <1>1, <2>1, <2>2, <2>3, <2>4, <2>5, <2>6 DEF Closed
<1>5. Handled'
  BY <1>1 DEF IInv, Handled, HasEntry
<1> QED
  BY <1>2, <1>4, <1>5 DEF IInv

(* A refusal changes nothing the invariant speaks of; nor does a stutter.  *)
LEMMA QuietStep ==
  ASSUME IInv, UNCHANGED <<program, created>>
  PROVE  IInv'
BY DEF IInv, RefusalLeavesNoApi, Closed, Handled, HasEntry, DocumentReads, StageNeeds,
       Permissions, program, document

LEMMA IInvStep == IInv /\ [Next]_vars => IInv'
<1> SUFFICES ASSUME IInv, [Next]_vars PROVE IInv'
  OBVIOUS
<1>1. CASE Construct
  BY <1>1, ConstructStep
<1>2. ASSUME NEW r \in registered, Create(r) PROVE IInv'
  BY <1>2, CreateStep
<1>3. ASSUME NEW r \in registered, Refuse(r) PROVE IInv'
  BY <1>3, QuietStep DEF Refuse
<1>4. CASE UNCHANGED vars
  BY <1>4, QuietStep DEF vars, engine
<1> QED
  BY <1>1, <1>2, <1>3, <1>4 DEF Next, Engine

-----------------------------------------------------------------------------
(* The invariant gives the property.                                       *)
LEMMA WholeApi == IInv => ApiIsWhole
<1> SUFFICES ASSUME IInv PROVE ApiIsWhole
  OBVIOUS
<1> SUFFICES ASSUME Stage \in created PROVE StageIsReachable
  BY DEF IInv, ApiIsWhole, StageIsReachable
<1>1. step = "done"
  BY NothingYet DEF IInv
<1>2. StageNeeds \subseteq created
  BY DEF IInv, Closed
<1>3. RestApi \in created /\ Deployment \in created /\ Permissions \subseteq created
  BY <1>2 DEF StageNeeds
<1>4. RestApiPolicy \in registered => RestApiPolicy \in created
  BY <1>3 DEF IInv, Closed
<1>5. ASSUME NEW path \in DOMAIN paths, NEW method \in DOMAIN paths[path]
      PROVE  paths[path][method].reads \subseteq created
  <2>1. DocumentReads \subseteq created
    BY <1>3 DEF IInv, Closed
  <2>2. paths[path][method].reads \in {paths[path][m].reads : m \in DOMAIN paths[path]}
    OBVIOUS
  <2>3. paths[path][method].reads \subseteq DocumentReads
    BY <2>2 DEF DocumentReads
  <2> QED
    BY <2>1, <2>3
<1>6. ASSUME NEW path \in DOMAIN paths, NEW method \in DOMAIN paths[path],
             paths[path][method].kind = "lambda"
      PROVE  \E given \in DOMAIN swaggerLambdas[path] :
               /\ SwaggerMethod(given) = method
               /\ swaggerLambdas[path][given].route = paths[path][method].route
               /\ Permission(path, given) \in created
  <2>1. /\ path \in DOMAIN swaggerLambdas
        /\ \E given \in DOMAIN swaggerLambdas[path] :
             /\ SwaggerMethod(given) = method
             /\ swaggerLambdas[path][given].route = paths[path][method].route
    BY <1>6 DEF IInv, Handled, HasEntry
  <2>2. \A given \in DOMAIN swaggerLambdas[path] :
          Permission(path, given) \in Permissions
    BY <2>1 DEF Permissions
  <2> QED
    BY <1>3, <2>1, <2>2
<1> QED
  BY <1>1, <1>4, <1>5, <1>6 DEF StageIsReachable

(* Whatever the routes, their order and what AWS refuses: a stage that is  *)
(* up has everything its operations name, with a permission for each       *)
(* handler, and a document that is not complete has no API.                *)
THEOREM ApiStaysWhole == Spec => []ApiIsWhole
<1>1. Spec => []IInv
  BY IInvInit, IInvStep, PTL DEF Spec
<1> QED
  BY <1>1, WholeApi, PTL

-----------------------------------------------------------------------------
(* That the document is as given.  The tasks of one route are pending; of  *)
(* each the invariant says what it will write, and all along them what     *)
(* their operations will be secured by.                                    *)
Current == next - 1

IsLive == request.swaggerString = "none" /\ step \notin {"failed", "unwritten"}

IsSeq(s) == \E S : s \in Seq(S)

Elems(s) == {s[i] : i \in 1..Len(s)}

(* A task of route n.                                                      *)
IsTaskOf(t, n) ==
  LET r == AllRoutes[n]
  IN  /\ t.do = "add" => /\ t.operation.route = n
                         /\ <<t.path, SwaggerMethod(t.method)>> \in Claims(n)
      /\ t.do = "index" =>
           t.route = n /\ HasIndex(r) /\ t.path = ServerPath(GivenPath(n))
      /\ t.do = "child" => /\ t.route = n /\ IsDirectory(r)
                           /\ t.path = ServerPath(GivenPath(n))
                           /\ t.file = r.index => HasIndex(r)
      /\ t.do = "authorize" =>
           t.route = n /\ t.authorizer \in DOMAIN request.authorizers

(* What a task writes, and what it takes from earlier routes.              *)
IsIndex(t) ==
  \/ t.do = "index"
  \/ t.do = "child" /\ t.file = AllRoutes[t.route].index

Writes(t, c) ==
  \/ t.do = "add" /\ c = <<t.path, SwaggerMethod(t.method)>>
  \/ IsIndex(t) /\ c = <<t.path, "get">>

Takes(t, c) == Writes(t, c) \/ (IsIndex(t) /\ c[1] = t.path)

WillWrite(ts, c) == \E t \in Elems(ts) : t.do = "throw" \/ Writes(t, c)
WillTake(ts, c) == \E t \in Elems(ts) : t.do = "throw" \/ Takes(t, c)

(* A task turns what the next operation is secured by from s into u; an    *)
(* operation is due when s is what its route asks for.                     *)
Turns(t, s, u) ==
  /\ t.do = "authorize" => u = s \cup {IdentityOf(t.authorizer, t.route)}
  /\ t.do = "apiKey" => u = s \cup {ApiKey}
  /\ t.do = "add" => s = SecuredBy(t.operation.route) /\ u = {}
  /\ t.do = "index" => s = SecuredBy(t.route) /\ u = {}
  /\ t.do = "child" => s = {} /\ u = {}
  /\ t.do \in {"register", "throw"} => u = s

IsTrace(E, ts, s, u) ==
  /\ E[1] = s /\ E[Len(ts) + 1] = u
  /\ \A i \in 1..Len(ts) : Turns(ts[i], E[i], E[i + 1])

Leads(ts, s, u) == IsSeq(ts) /\ \E E : IsTrace(E, ts, s, u)

-----------------------------------------------------------------------------
(* Sequences of tasks.                                                     *)
LEMMA EmptySeq == IsSeq(<<>>) /\ Len(<<>>) = 0 /\ Elems(<<>>) = {}
<1>1. <<>> \in Seq({})
  OBVIOUS
<1>2. Len(<<>>) = 0
  OBVIOUS
<1> QED
  BY <1>1, <1>2 DEF IsSeq, Elems

LEMMA OneSeq ==
  ASSUME NEW t
  PROVE  IsSeq(<<t>>) /\ Len(<<t>>) = 1 /\ <<t>>[1] = t /\ Elems(<<t>>) = {t}
<1>1. <<t>> \in Seq({t})
  OBVIOUS
<1>2. Len(<<t>>) = 1 /\ <<t>>[1] = t
  OBVIOUS
<1>3. IsSeq(<<t>>)
  BY <1>1 DEF IsSeq
<1>4. 1..Len(<<t>>) = {1}
  BY <1>2
<1>5. Elems(<<t>>) = {<<t>>[1]}
  BY <1>4, Zenon DEF Elems
<1> QED
  BY <1>2, <1>3, <1>5

LEMMA SeqLen == ASSUME NEW s, IsSeq(s) PROVE Len(s) \in Nat
BY DEF IsSeq

LEMMA ConcatSeq ==
  ASSUME NEW a, NEW b, IsSeq(a), IsSeq(b)
  PROVE  /\ IsSeq(a \o b)
         /\ Len(a \o b) = Len(a) + Len(b)
         /\ \A i \in 1..Len(a) : (a \o b)[i] = a[i]
         /\ \A i \in 1..Len(b) : (a \o b)[Len(a) + i] = b[i]
<1>1. PICK S : a \in Seq(S)
  BY DEF IsSeq
<1>2. PICK T : b \in Seq(T)
  BY DEF IsSeq
<1>3. a \in Seq(S \cup T) /\ b \in Seq(S \cup T)
  <2>1. ASSUME NEW i \in 1..Len(a) PROVE a[i] \in S \cup T
    BY <1>1
  <2>2. ASSUME NEW i \in 1..Len(b) PROVE b[i] \in S \cup T
    BY <1>2
  <2> QED
    BY <1>1, <1>2, <2>1, <2>2
<1> DEFINE U == S \cup T
<1> HIDE DEF U
<1>4. a \in Seq(U) /\ b \in Seq(U)
  BY <1>3 DEF U
<1>5. /\ a \o b \in Seq(U)
      /\ Len(a \o b) = Len(a) + Len(b)
      /\ \A i \in 1..Len(a) : (a \o b)[i] = a[i]
      /\ \A i \in 1..Len(b) : (a \o b)[Len(a) + i] = b[i]
  BY <1>4
<1> QED
  BY <1>5 DEF IsSeq

LEMMA ConcatElems ==
  ASSUME NEW a, NEW b, IsSeq(a), IsSeq(b)
  PROVE  Elems(a \o b) = Elems(a) \cup Elems(b)
<1>1. Len(a) \in Nat /\ Len(b) \in Nat
  BY SeqLen
<1>2. /\ Len(a \o b) = Len(a) + Len(b)
      /\ \A i \in 1..Len(a) : (a \o b)[i] = a[i]
      /\ \A i \in 1..Len(b) : (a \o b)[Len(a) + i] = b[i]
  BY ConcatSeq
<1>3. ASSUME NEW x \in Elems(a \o b) PROVE x \in Elems(a) \cup Elems(b)
  <2>1. PICK i \in 1..(Len(a) + Len(b)) : x = (a \o b)[i]
    BY <1>2 DEF Elems
  <2>2. CASE i <= Len(a)
    BY <1>1, <1>2, <2>1, <2>2 DEF Elems
  <2>3. CASE i > Len(a)
    <3>1. i - Len(a) \in 1..Len(b) /\ i = Len(a) + (i - Len(a))
      BY <1>1, <2>3
    <3> QED
      BY <1>2, <2>1, <3>1 DEF Elems
  <2> QED
    BY <1>1, <2>2, <2>3
<1>4. ASSUME NEW x \in Elems(a) PROVE x \in Elems(a \o b)
  <2>1. PICK i \in 1..Len(a) : x = a[i]
    BY DEF Elems
  <2>2. i \in 1..Len(a \o b)
    BY <1>1, <1>2
  <2> QED
    BY <1>2, <2>1, <2>2 DEF Elems
<1>5. ASSUME NEW x \in Elems(b) PROVE x \in Elems(a \o b)
  <2>1. PICK i \in 1..Len(b) : x = b[i]
    BY DEF Elems
  <2>2. Len(a) + i \in 1..Len(a \o b)
    BY <1>1, <1>2
  <2> QED
    BY <1>2, <2>1, <2>2 DEF Elems
<1> QED
  BY <1>3, <1>4, <1>5

LEMMA TailSeq ==
  ASSUME NEW s, IsSeq(s), s # <<>>
  PROVE  /\ IsSeq(Tail(s)) /\ Len(s) \in Nat \ {0}
         /\ Len(Tail(s)) = Len(s) - 1
         /\ Head(s) = s[1]
         /\ \A i \in 1..(Len(s) - 1) : Tail(s)[i] = s[i + 1]
<1>1. PICK S : s \in Seq(S)
  BY DEF IsSeq
<1>2. Tail(s) \in Seq(S) /\ Len(s) \in Nat \ {0} /\ Len(Tail(s)) = Len(s) - 1
  BY <1>1
<1>3. Head(s) = s[1] /\ \A i \in 1..(Len(s) - 1) : Tail(s)[i] = s[i + 1]
  BY <1>1, <1>2
<1> QED
  BY <1>2, <1>3 DEF IsSeq

LEMMA TailElems ==
  ASSUME NEW s, IsSeq(s), s # <<>>
  PROVE  Elems(s) = {Head(s)} \cup Elems(Tail(s))
<1>1. /\ Len(s) \in Nat \ {0}
      /\ Len(Tail(s)) = Len(s) - 1
      /\ Head(s) = s[1]
      /\ \A i \in 1..(Len(s) - 1) : Tail(s)[i] = s[i + 1]
  BY TailSeq
<1>2. ASSUME NEW x \in Elems(s) PROVE x = Head(s) \/ x \in Elems(Tail(s))
  <2>1. PICK i \in 1..Len(s) : x = s[i]
    BY DEF Elems
  <2>2. CASE i = 1
    BY <1>1, <2>1, <2>2
  <2>3. CASE i # 1
    <3>1. i - 1 \in 1..(Len(s) - 1) /\ i = (i - 1) + 1
      BY <1>1, <2>3
    <3> QED
      BY <1>1, <2>1, <3>1 DEF Elems
  <2> QED
    BY <2>2, <2>3
<1>3. Head(s) \in Elems(s)
  BY <1>1 DEF Elems
<1>4. ASSUME NEW x \in Elems(Tail(s)) PROVE x \in Elems(s)
  <2>1. PICK i \in 1..(Len(s) - 1) : x = Tail(s)[i]
    BY <1>1 DEF Elems
  <2>2. i + 1 \in 1..Len(s)
    BY <1>1
  <2> QED
    BY <1>1, <2>1, <2>2 DEF Elems
<1> QED
  BY <1>2, <1>3, <1>4

-----------------------------------------------------------------------------
(* What tasks lead to.                                                     *)
LEMMA EmptyLeads == ASSUME NEW s PROVE Leads(<<>>, s, s)
<1> DEFINE E == [i \in {1} |-> s]
<1>1. E[1] = s
  OBVIOUS
<1>2. IsTrace(E, <<>>, s, s)
  BY <1>1, EmptySeq DEF IsTrace
<1> QED
  BY <1>2, EmptySeq DEF Leads

LEMMA OneLeads ==
  ASSUME NEW t, NEW s, NEW u, Turns(t, s, u)
  PROVE  Leads(<<t>>, s, u)
<1> DEFINE E == [i \in 1..2 |-> IF i = 1 THEN s ELSE u]
<1>1. E[1] = s /\ E[2] = u
  OBVIOUS
<1> HIDE DEF E
<1>2. IsTrace(E, <<t>>, s, u)
  BY <1>1, OneSeq DEF IsTrace
<1> QED
  BY <1>2, OneSeq DEF Leads

LEMMA ConcatLeads ==
  ASSUME NEW a, NEW b, NEW s, NEW u, NEW v, Leads(a, s, u), Leads(b, u, v)
  PROVE  Leads(a \o b, s, v)
<1>1. IsSeq(a) /\ IsSeq(b)
  BY DEF Leads
<1>2. Len(a) \in Nat /\ Len(b) \in Nat
  BY <1>1, SeqLen
<1>3. /\ IsSeq(a \o b)
      /\ Len(a \o b) = Len(a) + Len(b)
      /\ \A i \in 1..Len(a) : (a \o b)[i] = a[i]
      /\ \A i \in 1..Len(b) : (a \o b)[Len(a) + i] = b[i]
  BY <1>1, ConcatSeq
<1>4. PICK E : IsTrace(E, a, s, u)
  BY DEF Leads
<1>5. PICK F : IsTrace(F, b, u, v)
  BY DEF Leads
<1> DEFINE G == [i \in 1..(Len(a) + Len(b) + 1) |->
                   IF i <= Len(a) THEN E[i] ELSE F[i - Len(a)]]
<1>6. \A i \in 1..(Len(a) + 1) : G[i] = E[i]
  <2> SUFFICES ASSUME NEW i \in 1..(Len(a) + 1) PROVE G[i] = E[i]
    OBVIOUS
  <2>1. CASE i <= Len(a)
    BY <1>2, <2>1
  <2>2. CASE i = Len(a) + 1
    <3>1. G[i] = F[1]
      BY <1>2, <2>2
    <3> QED
      BY <1>4, <1>5, <2>2, <3>1 DEF IsTrace
  <2> QED
    BY <1>2, <2>1, <2>2
<1>7. \A i \in 1..(Len(b) + 1) : G[Len(a) + i] = F[i]
  BY <1>2
<1> HIDE DEF G
<1>8. G[1] = s
  BY <1>2, <1>4, <1>6 DEF IsTrace
<1>9. G[Len(a) + Len(b) + 1] = v
  <2>1. Len(b) + 1 \in 1..(Len(b) + 1) /\ Len(a) + (Len(b) + 1) = Len(a) + Len(b) + 1
    BY <1>2
  <2> QED
    BY <1>5, <1>7, <2>1 DEF IsTrace
<1>10. ASSUME NEW i \in 1..(Len(a) + Len(b))
       PROVE  Turns((a \o b)[i], G[i], G[i + 1])
  <2>1. CASE i <= Len(a)
    <3>1. /\ i \in 1..Len(a) /\ i \in 1..(Len(a) + 1) /\ i + 1 \in 1..(Len(a) + 1)
      BY <1>2, <2>1
    <3>2. Turns(a[i], E[i], E[i + 1])
      BY <1>4, <3>1 DEF IsTrace
    <3> QED
      BY <1>3, <1>6, <3>1, <3>2
  <2>2. CASE i > Len(a)
    <3> DEFINE j == i - Len(a)
    <3>1. /\ j \in 1..Len(b) /\ j \in 1..(Len(b) + 1) /\ j + 1 \in 1..(Len(b) + 1)
          /\ i = Len(a) + j /\ i + 1 = Len(a) + (j + 1)
      BY <1>2, <2>2
    <3> HIDE DEF j
    <3>2. Turns(b[j], F[j], F[j + 1])
      BY <1>5, <3>1 DEF IsTrace
    <3> QED
      BY <1>3, <1>7, <3>1, <3>2
  <2> QED
    BY <1>2, <2>1, <2>2
<1>11. IsTrace(G, a \o b, s, v)
  BY <1>3, <1>8, <1>9, <1>10 DEF IsTrace
<1> QED
  BY <1>3, <1>11 DEF Leads

LEMMA TailLeads ==
  ASSUME NEW ts, NEW s, NEW v, Leads(ts, s, v), ts # <<>>
  PROVE  \E u : Turns(Head(ts), s, u) /\ Leads(Tail(ts), u, v)
<1>1. /\ IsSeq(Tail(ts)) /\ Len(ts) \in Nat \ {0}
      /\ Len(Tail(ts)) = Len(ts) - 1
      /\ Head(ts) = ts[1]
      /\ \A i \in 1..(Len(ts) - 1) : Tail(ts)[i] = ts[i + 1]
  BY TailSeq DEF Leads
<1>2. PICK E : IsTrace(E, ts, s, v)
  BY DEF Leads
<1> DEFINE F == [i \in 1..Len(ts) |-> E[i + 1]]
<1>3. Turns(Head(ts), s, E[2])
  <2>1. Turns(ts[1], E[1], E[1 + 1])
    BY <1>1, <1>2 DEF IsTrace
  <2> QED
    BY <1>1, <1>2, <2>1 DEF IsTrace
<1>4. \A i \in 1..Len(ts) : F[i] = E[i + 1]
  OBVIOUS
<1> HIDE DEF F
<1>5. F[1] = E[2] /\ F[Len(Tail(ts)) + 1] = v
  <2>1. 1 \in 1..Len(ts) /\ Len(ts) \in 1..Len(ts) /\ Len(Tail(ts)) + 1 = Len(ts)
    BY <1>1
  <2> QED
    BY <1>2, <1>4, <2>1 DEF IsTrace
<1>6. ASSUME NEW i \in 1..Len(Tail(ts)) PROVE Turns(Tail(ts)[i], F[i], F[i + 1])
  <2>1. i \in 1..(Len(ts) - 1) /\ i \in 1..Len(ts) /\ i + 1 \in 1..Len(ts)
    BY <1>1
  <2>2. Turns(ts[i + 1], E[i + 1], E[(i + 1) + 1])
    BY <1>2, <2>1 DEF IsTrace
  <2> QED
    BY <1>1, <1>4, <2>1, <2>2
<1>7. IsTrace(F, Tail(ts), E[2], v)
  BY <1>5, <1>6 DEF IsTrace
<1> QED
  BY <1>1, <1>3, <1>7 DEF Leads

-----------------------------------------------------------------------------
(* The routes of a request that has the types of its arguments.            *)
LEMMA ListIsSeq ==
  ASSUME NEW s, IsList(s)
  PROVE  IsSeq(s) /\ DOMAIN s = 1..Len(s) /\ Len(s) \in Nat
<1>1. s \in Seq({s[i] : i \in DOMAIN s})
  BY DEF IsList
<1>2. DOMAIN s = 1..Len(s) /\ Len(s) \in Nat
  BY <1>1
<1> QED
  BY <1>1, <1>2 DEF IsSeq

LEMMA RoutesOfRequest ==
  ASSUME request \in Requests
  PROVE  /\ Len(GivenRoutes) \in Nat /\ Len(AllRoutes) \in Nat
         /\ Len(GivenRoutes) <= Len(AllRoutes)
         /\ DOMAIN AllRoutes = 1..Len(AllRoutes)
         /\ \A n \in 1..Len(AllRoutes) : IsRoute(AllRoutes[n], request.authorizers)
<1> DEFINE Good(routes) ==
             /\ IsSeq(routes) /\ Len(routes) \in Nat
             /\ \A n \in 1..Len(routes) : IsRoute(routes[n], request.authorizers)
<1>1. \A routes \in {request.routes, request.additionalRoutes} :
        routes # Undefined =>
          /\ IsList(routes)
          /\ \A i \in DOMAIN routes : IsRoute(routes[i], request.authorizers)
  BY RequestAssumption
<1>2. Good(<<>>)
  BY EmptySeq
<1>3. Good(GivenRoutes)
  <2>1. CASE request.routes = Undefined
    BY <1>2, <2>1 DEF GivenRoutes
  <2>2. CASE request.routes # Undefined
    BY <1>1, <2>2, ListIsSeq DEF GivenRoutes
  <2> QED
    BY <2>1, <2>2
<1>4. Good(AdditionalRoutes)
  <2>1. CASE request.additionalRoutes = Undefined
    BY <1>2, <2>1 DEF AdditionalRoutes
  <2>2. CASE request.additionalRoutes # Undefined
    BY <1>1, <2>2, ListIsSeq DEF AdditionalRoutes
  <2> QED
    BY <2>1, <2>2
<1>5. /\ IsSeq(AllRoutes)
      /\ Len(AllRoutes) = Len(GivenRoutes) + Len(AdditionalRoutes)
      /\ \A i \in 1..Len(GivenRoutes) : AllRoutes[i] = GivenRoutes[i]
      /\ \A i \in 1..Len(AdditionalRoutes) :
           AllRoutes[Len(GivenRoutes) + i] = AdditionalRoutes[i]
  BY <1>3, <1>4, ConcatSeq DEF AllRoutes
<1>6. ASSUME NEW n \in 1..Len(AllRoutes)
      PROVE  IsRoute(AllRoutes[n], request.authorizers)
  <2>1. CASE n <= Len(GivenRoutes)
    BY <1>3, <1>5, <2>1
  <2>2. CASE n > Len(GivenRoutes)
    <3>1. /\ n - Len(GivenRoutes) \in 1..Len(AdditionalRoutes)
          /\ n = Len(GivenRoutes) + (n - Len(GivenRoutes))
      BY <1>3, <1>4, <1>5, <2>2
    <3> QED
      BY <1>4, <1>5, <3>1
  <2> QED
    BY <1>3, <2>1, <2>2
<1>7. DOMAIN AllRoutes = 1..Len(AllRoutes)
  BY <1>5 DEF IsSeq
<1> QED
  BY <1>3, <1>4, <1>5, <1>6, <1>7

(* The path a route is written to is the one it is given; that of the      *)
(* proxy is another than that of the directory.                            *)
LEMMA PathIsGiven ==
  ASSUME request \in Requests, NEW n \in 1..Len(AllRoutes)
  PROVE  PathOf(n) = GivenPath(n) /\ IsSeq(GivenPath(n))
<1> DEFINE path == AllRoutes[n].path
<1>1. IsSeq(path)
  BY RoutesOfRequest, ListIsSeq DEF IsRoute
<1>2. IsSeq(<<"/">> \o path)
  BY <1>1, OneSeq, ConcatSeq
<1>3. path # <<>> => Head(path) = path[1]
  BY <1>1, TailSeq
<1> QED
  BY <1>1, <1>2, <1>3 DEF PathOf, GivenPath, Normalized

LEMMA AppendSeq ==
  ASSUME NEW s, NEW e, IsSeq(s)
  PROVE  IsSeq(Append(s, e)) /\ Len(Append(s, e)) = Len(s) + 1 /\ Len(s) \in Nat
<1>1. PICK S : s \in Seq(S)
  BY DEF IsSeq
<1> DEFINE T == S \cup {e}
<1>2. s \in Seq(T)
  <2>1. \A i \in 1..Len(s) : s[i] \in T
    BY <1>1
  <2> QED
    BY <1>1, <2>1
<1>3. e \in T
  OBVIOUS
<1> HIDE DEF T
<1>4. Append(s, e) \in Seq(T) /\ Len(Append(s, e)) = Len(s) + 1 /\ Len(s) \in Nat
  BY <1>2, <1>3
<1> QED
  BY <1>4 DEF IsSeq

LEMMA ProxyIsElsewhere ==
  ASSUME NEW path, IsSeq(path)
  PROVE  ProxyPath(path) # ServerPath(path)
<1> DEFINE base == ServerPath(path)
<1>1. IsSeq(base)
  BY AppendSeq DEF ServerPath
<1>2. Len(ProxyPath(path)) = Len(base) + 1 /\ Len(base) \in Nat
  BY <1>1, AppendSeq DEF ProxyPath
<1> QED
  BY <1>2

-----------------------------------------------------------------------------
(* Tasks of route n that lead from s to u.                                 *)
AreTasks(ts, n, s, u) == Leads(ts, s, u) /\ \A t \in Elems(ts) : IsTaskOf(t, n)

LEMMA EmptyTasks == ASSUME NEW n, NEW s PROVE AreTasks(<<>>, n, s, s)
BY EmptyLeads, EmptySeq DEF AreTasks

LEMMA OneTask ==
  ASSUME NEW t, NEW n, NEW s, NEW u, Turns(t, s, u), IsTaskOf(t, n)
  PROVE  AreTasks(<<t>>, n, s, u)
BY OneLeads, OneSeq DEF AreTasks

LEMMA ConcatTasks ==
  ASSUME NEW a, NEW b, NEW n, NEW s, NEW u, NEW v,
         AreTasks(a, n, s, u), AreTasks(b, n, u, v)
  PROVE  /\ AreTasks(a \o b, n, s, v)
         /\ \A c : WillWrite(a, c) \/ WillWrite(b, c) => WillWrite(a \o b, c)
         /\ \A c : WillTake(a, c) \/ WillTake(b, c) => WillTake(a \o b, c)
<1>1. Leads(a \o b, s, v)
  BY ConcatLeads DEF AreTasks
<1>2. Elems(a \o b) = Elems(a) \cup Elems(b)
  BY ConcatElems DEF AreTasks, Leads
<1> QED
  BY <1>1, <1>2 DEF AreTasks, WillWrite, WillTake

LEMMA ThrowTask ==
  ASSUME NEW n
  PROVE  AreTasks(Throw, n, {}, {}) /\ \A c : WillWrite(Throw, c)
<1> DEFINE t == [do |-> "throw"]
<1>1. t.do = "throw"
  OBVIOUS
<1>2. Throw = <<t>>
  BY DEF Throw
<1> HIDE DEF t
<1>3. Turns(t, {}, {}) /\ IsTaskOf(t, n)
  BY <1>1 DEF Turns, IsTaskOf
<1> QED
  BY <1>1, <1>2, <1>3, OneTask, OneSeq DEF WillWrite

LEMMA RegisterTask ==
  ASSUME NEW n, NEW resource
  PROVE  AreTasks(Register(resource), n, {}, {})
<1> DEFINE t == [do |-> "register", resource |-> resource]
<1>1. t.do = "register"
  OBVIOUS
<1>2. Register(resource) = <<t>>
  BY DEF Register
<1> HIDE DEF t
<1>3. Turns(t, {}, {}) /\ IsTaskOf(t, n)
  BY <1>1 DEF Turns, IsTaskOf
<1> QED
  BY <1>2, <1>3, OneTask

LEMMA AddTask ==
  ASSUME NEW n, NEW path, NEW method, NEW operation, operation.route = n,
         <<path, SwaggerMethod(method)>> \in Claims(n)
  PROVE  /\ AreTasks(Add(path, method, operation), n, SecuredBy(n), {})
         /\ WillWrite(Add(path, method, operation), <<path, SwaggerMethod(method)>>)
<1> DEFINE t == [do |-> "add", path |-> path, method |-> method,
                 operation |-> operation]
<1>1. t.do = "add" /\ t.path = path /\ t.method = method /\ t.operation = operation
  OBVIOUS
<1>2. Add(path, method, operation) = <<t>>
  BY DEF Add
<1> HIDE DEF t
<1>3. Turns(t, SecuredBy(n), {}) /\ IsTaskOf(t, n)
  BY <1>1 DEF Turns, IsTaskOf
<1>4. Writes(t, <<path, SwaggerMethod(method)>>)
  BY <1>1 DEF Writes
<1> QED
  BY <1>2, <1>3, <1>4, OneTask, OneSeq DEF WillWrite

(* The options of a route lead to what it is secured by.                   *)
LEMMA OptionTasks ==
  ASSUME request \in Requests, NEW n \in 1..Len(AllRoutes)
  PROVE  AreTasks(Options(AllRoutes[n], n), n, {}, SecuredBy(n))
<1> DEFINE r == AllRoutes[n]
           list == r.authorizers
           task(i) == [do |-> "authorize", authorizer |-> list[i], route |-> n]
           ts == [i \in DOMAIN list |-> task(i)]
           ids(k) == {IdentityOf(list[j], n) : j \in 1..k}
           last == IF r.apiKeyRequired THEN <<[do |-> "apiKey"]>> ELSE <<>>
<1>1. /\ DOMAIN list = 1..Len(list) /\ Len(list) \in Nat
      /\ \A i \in DOMAIN list : list[i] \in DOMAIN request.authorizers
      /\ r.apiKeyRequired \in BOOLEAN
  BY RoutesOfRequest, ListIsSeq DEF IsRoute
<1>2. /\ IsSeq(ts) /\ Len(ts) = Len(list)
      /\ \A i \in 1..Len(list) : ts[i] = task(i)
  <2>1. ts \in Seq({task(i) : i \in DOMAIN list})
    BY <1>1
  <2>2. Len(ts) = Len(list)
    BY <1>1
  <2> QED
    BY <1>1, <2>1, <2>2 DEF IsSeq
<1>3. \A i \in 1..Len(list) :
        /\ task(i).do = "authorize" /\ task(i).authorizer = list[i] /\ task(i).route = n
  OBVIOUS
<1>4. SecuredBy(n) = ids(Len(list)) \cup (IF r.apiKeyRequired THEN {ApiKey} ELSE {})
  BY <1>1 DEF SecuredBy
<1> HIDE DEF task, ts, list
<1>5. AreTasks(ts, n, {}, ids(Len(list)))
  <2> DEFINE E == [i \in 1..(Len(list) + 1) |-> ids(i - 1)]
  <2>1. E[1] = {} /\ E[Len(list) + 1] = ids(Len(list))
    <3>1. 1 \in 1..(Len(list) + 1) /\ Len(list) + 1 \in 1..(Len(list) + 1)
          /\ 1 - 1 = 0 /\ Len(list) + 1 - 1 = Len(list) /\ 1..0 = {}
      BY <1>1
    <3> QED
      BY <3>1
  <2>2. ASSUME NEW i \in 1..Len(list) PROVE Turns(ts[i], E[i], E[i + 1])
    <3>1. E[i] = ids(i - 1) /\ E[i + 1] = ids(i)
      <4>1. i \in 1..(Len(list) + 1) /\ i + 1 \in 1..(Len(list) + 1) /\ i + 1 - 1 = i
        BY <1>1
      <4> QED
        BY <4>1
    <3>2. ids(i) = ids(i - 1) \cup {IdentityOf(list[i], n)}
      <4>1. 1..i = 1..(i - 1) \cup {i}
        BY <1>1
      <4> QED
        BY <4>1
    <3> QED
      BY <1>2, <1>3, <3>1, <3>2 DEF Turns
  <2> HIDE DEF E
  <2>3. IsTrace(E, ts, {}, ids(Len(list)))
    BY <1>2, <2>1, <2>2 DEF IsTrace
  <2>4. ASSUME NEW t \in Elems(ts) PROVE IsTaskOf(t, n)
    <3>1. PICK i \in 1..Len(list) : t = ts[i]
      BY <1>2 DEF Elems
    <3> QED
      BY <1>1, <1>2, <1>3, <3>1 DEF IsTaskOf
  <2> QED
    BY <1>2, <2>3, <2>4 DEF AreTasks, Leads
<1>6. AreTasks(last, n, ids(Len(list)), SecuredBy(n))
  <2>1. CASE r.apiKeyRequired
    <3> DEFINE t == [do |-> "apiKey"]
    <3>1. t.do = "apiKey"
      OBVIOUS
    <3>2. last = <<t>>
      BY <2>1
    <3>3. SecuredBy(n) = ids(Len(list)) \cup {ApiKey}
      BY <1>4, <2>1
    <3> HIDE DEF t, ids, last
    <3>4. Turns(t, ids(Len(list)), SecuredBy(n)) /\ IsTaskOf(t, n)
      BY <3>1, <3>3 DEF Turns, IsTaskOf
    <3> QED
      BY <3>2, <3>4, OneTask
  <2>2. CASE ~r.apiKeyRequired
    <3>1. last = <<>> /\ SecuredBy(n) = ids(Len(list))
      BY <1>4, <2>2
    <3> HIDE DEF ids, last
    <3> QED
      BY <3>1, EmptyTasks
  <2> QED
    BY <2>1, <2>2
<1>7. Options(r, n) = ts \o last
  BY DEF Options, ts, task, list
<1> HIDE DEF ids, last
<1> QED
  BY <1>5, <1>6, <1>7, ConcatTasks

(* The files of a directory, its index among them or not.                  *)
LEMMA ChildTasks ==
  ASSUME request \in Requests, NEW n \in 1..Len(AllRoutes), IsDirectory(AllRoutes[n]),
         NEW key, NEW reads
  PROVE  LET r == AllRoutes[n]
             base == ServerPath(GivenPath(n))
             child(file) == [do |-> "child", file |-> file, key |-> key, route |-> n,
                             path |-> base, reads |-> reads]
             children == [i \in DOMAIN r.files |-> child(r.files[i])]
         IN  /\ AreTasks(children, n, {}, {})
             /\ HasIndex(r) =>
                  /\ WillWrite(children, <<base, "get">>)
                  /\ \A c : c[1] = base => WillTake(children, c)
<1> DEFINE r == AllRoutes[n]
           base == ServerPath(GivenPath(n))
           files == r.files
           child(file) == [do |-> "child", file |-> file, key |-> key, route |-> n,
                           path |-> base, reads |-> reads]
           children == [i \in DOMAIN files |-> child(files[i])]
<1>1. DOMAIN files = 1..Len(files) /\ Len(files) \in Nat
  BY RoutesOfRequest, ListIsSeq DEF IsRoute, IsDirectory
<1>2. /\ IsSeq(children) /\ Len(children) = Len(files)
      /\ \A i \in 1..Len(files) : children[i] = child(files[i])
  <2>1. children \in Seq({child(files[i]) : i \in DOMAIN files})
    BY <1>1
  <2>2. Len(children) = Len(files)
    BY <1>1
  <2> QED
    BY <1>1, <2>1, <2>2 DEF IsSeq
<1>3. \A i \in 1..Len(files) :
        /\ child(files[i]).do = "child" /\ child(files[i]).file = files[i]
        /\ child(files[i]).route = n /\ child(files[i]).path = base
  OBVIOUS
<1>4. HasIndex(r) <=> \E i \in 1..Len(files) : files[i] = r.index
  BY <1>1 DEF HasIndex
<1> HIDE DEF child, children, files, base
<1>5. Leads(children, {}, {})
  <2> DEFINE E == [i \in 1..(Len(files) + 1) |-> {}]
  <2>1. \A i \in 1..(Len(files) + 1) : E[i] = {}
    OBVIOUS
  <2> HIDE DEF E
  <2>2. ASSUME NEW i \in 1..Len(files) PROVE Turns(children[i], E[i], E[i + 1])
    <3>1. i \in 1..(Len(files) + 1) /\ i + 1 \in 1..(Len(files) + 1)
      BY <1>1
    <3> QED
      BY <1>2, <1>3, <2>1, <3>1 DEF Turns
  <2>3. 1 \in 1..(Len(files) + 1) /\ Len(files) + 1 \in 1..(Len(files) + 1)
    BY <1>1
  <2>4. IsTrace(E, children, {}, {})
    BY <1>2, <2>1, <2>2, <2>3 DEF IsTrace
  <2> QED
    BY <1>2, <2>4 DEF Leads
<1>6. ASSUME NEW t \in Elems(children) PROVE IsTaskOf(t, n)
  <2>1. PICK i \in 1..Len(files) : t = children[i]
    BY <1>2 DEF Elems
  <2>2. /\ t.do = "child" /\ t.file = files[i] /\ t.route = n /\ t.path = base
    BY <1>2, <1>3, <2>1
  <2> QED
    BY <1>4, <2>2 DEF IsTaskOf, base
<1>7. ASSUME HasIndex(r)
      PROVE  \E t \in Elems(children) : IsIndex(t) /\ t.path = base
  <2>1. PICK i \in 1..Len(files) : files[i] = r.index
    BY <1>4, <1>7
  <2>2. children[i] \in Elems(children)
    BY <1>2 DEF Elems
  <2> QED
    BY <1>2, <1>3, <2>1, <2>2 DEF IsIndex
<1>8. HasIndex(r) => /\ WillWrite(children, <<base, "get">>)
                     /\ \A c : c[1] = base => WillTake(children, c)
  BY <1>7 DEF WillWrite, WillTake, Writes, Takes
<1>9. AreTasks(children, n, {}, {})
  BY <1>5, <1>6 DEF AreTasks
<1> QED
  BY <1>8, <1>9 DEF children, child, files, base

-----------------------------------------------------------------------------
(* The tasks of a route write all it claims, or one of them refuses it,    *)
(* and take all it takes over.                                             *)
WriteAll(ts, n) ==
  /\ AreTasks(ts, n, {}, {})
  /\ \A c \in Claims(n) : WillWrite(ts, c)
  /\ HasIndex(AllRoutes[n]) =>
       \A c : c[1] = ServerPath(GivenPath(n)) => WillTake(ts, c)

LEMMA ThrowIsAll == ASSUME NEW n PROVE WriteAll(Throw, n)
BY ThrowTask, OneSeq DEF WriteAll, Throw, WillTake

(* A route with one operation, after its options.                          *)
LEMMA AddIsAll ==
  ASSUME request \in Requests, NEW n \in 1..Len(AllRoutes), NEW path, NEW method,
         NEW operation, operation.route = n, ~HasIndex(AllRoutes[n]),
         Claims(n) = {<<path, SwaggerMethod(method)>>},
         NEW ts, AreTasks(ts, n, {}, {})
  PROVE  WriteAll(ts \o Options(AllRoutes[n], n) \o Add(path, method, operation), n)
<1> DEFINE opts == Options(AllRoutes[n], n)
           last == Add(path, method, operation)
<1>1. AreTasks(ts \o opts, n, {}, SecuredBy(n))
  BY OptionTasks, ConcatTasks
<1>2. AreTasks(last, n, SecuredBy(n), {}) /\ WillWrite(last, <<path, SwaggerMethod(method)>>)
  BY AddTask
<1> HIDE DEF opts, last
<1>3. /\ AreTasks((ts \o opts) \o last, n, {}, {})
      /\ WillWrite((ts \o opts) \o last, <<path, SwaggerMethod(method)>>)
  BY <1>1, <1>2, ConcatTasks
<1> QED
  BY <1>3 DEF WriteAll, opts, last

LEMMA HandlerIsAll ==
  ASSUME request \in Requests, NEW n \in 1..Len(AllRoutes), AllRoutes[n].kind = "handler"
  PROVE  WriteAll(HandlerTasks(AllRoutes[n], n, GivenPath(n)), n)
<1> DEFINE r == AllRoutes[n]
           path == GivenPath(n)
           function == <<n, "Function", <<SwaggerMethod(r.method), path>>>>
           own == r.eventHandler = "callback"
           first == IF own THEN Register(function) ELSE <<>>
           operation == Operation("lambda", n, IF own THEN {function} ELSE {})
<1>1. ~HasIndex(r) /\ Claims(n) = {<<path, SwaggerMethod(r.method)>>}
  BY DEF HasIndex, IsDirectory, Claims
<1>2. operation.route = n
  BY DEF Operation
<1>3. AreTasks(first, n, {}, {})
  BY RegisterTask, EmptyTasks
<1>4. WriteAll(first \o Options(r, n) \o Add(path, r.method, operation), n)
  <2> HIDE DEF operation, first, path
  <2> QED
    BY <1>1, <1>2, <1>3, AddIsAll
<1>5. CASE SwaggerMethod(r.method) = Undefined
  BY <1>5, ThrowIsAll DEF HandlerTasks
<1>6. CASE SwaggerMethod(r.method) # Undefined
  BY <1>4, <1>6 DEF HandlerTasks
<1> QED
  BY <1>5, <1>6

LEMMA RawDataIsAll ==
  ASSUME request \in Requests, NEW n \in 1..Len(AllRoutes), AllRoutes[n].kind = "raw"
  PROVE  WriteAll(RawDataTasks(AllRoutes[n], n, GivenPath(n)), n)
<1> DEFINE r == AllRoutes[n]
           path == GivenPath(n)
           operation == Operation("raw", n, {})
<1>1. ~HasIndex(r) /\ Claims(n) = {<<path, SwaggerMethod(r.method)>>}
  BY DEF HasIndex, IsDirectory, Claims
<1>2. operation.route = n
  BY DEF Operation
<1>3. SecuredBy(n) = {}
  <2>1. r.authorizers = <<>> /\ ~r.apiKeyRequired
    BY RoutesOfRequest DEF IsRoute
  <2>2. DOMAIN <<>> = {}
    OBVIOUS
  <2> QED
    BY <2>1, <2>2 DEF SecuredBy
<1>4. WriteAll(Add(path, r.method, operation), n)
  <2> HIDE DEF operation, path
  <2> QED
    BY <1>1, <1>2, <1>3, AddTask DEF WriteAll
<1>5. CASE SwaggerMethod(r.method) = Undefined
  BY <1>5, ThrowIsAll DEF RawDataTasks
<1>6. CASE SwaggerMethod(r.method) # Undefined
  BY <1>4, <1>6 DEF RawDataTasks
<1> QED
  BY <1>5, <1>6

LEMMA IntegrationIsAll ==
  ASSUME request \in Requests, NEW n \in 1..Len(AllRoutes), AllRoutes[n].kind = "integration"
  PROVE  WriteAll(IntegrationTasks(AllRoutes[n], n, GivenPath(n)), n)
<1> DEFINE r == AllRoutes[n]
           path == GivenPath(n)
           link == <<n, "VpcLink", <<"link", path>>>>
           own == r.target = "provider"
           operation == Operation("proxy", n, IF own THEN {link} ELSE {})
           first == IF own THEN Register(link) ELSE <<>>
           opts == Options(r, n)
           server == Add(ServerPath(path), "ANY", operation)
           proxy == Add(ProxyPath(path), "ANY", operation)
<1>1. /\ ~HasIndex(r)
      /\ Claims(n) = {<<ServerPath(path), Any>>, <<ProxyPath(path), Any>>}
  BY DEF HasIndex, IsDirectory, Claims
<1>2. operation.route = n
  BY DEF Operation
<1>3. SwaggerMethod("ANY") = Any
  BY DEF SwaggerMethod, Any
<1>4. AreTasks(first, n, {}, {})
  BY RegisterTask, EmptyTasks
<1>5. IntegrationTasks(r, n, path) = (((first \o opts) \o server) \o opts) \o proxy
  BY DEF IntegrationTasks
<1> HIDE DEF operation, first, path, link
<1>6. AreTasks(opts, n, {}, SecuredBy(n))
  BY OptionTasks
<1>7. AreTasks(server, n, SecuredBy(n), {}) /\ WillWrite(server, <<ServerPath(path), Any>>)
  BY <1>1, <1>2, <1>3, AddTask
<1>8. AreTasks(proxy, n, SecuredBy(n), {}) /\ WillWrite(proxy, <<ProxyPath(path), Any>>)
  BY <1>1, <1>2, <1>3, AddTask
<1> HIDE DEF opts, server, proxy
<1>9. AreTasks(first \o opts, n, {}, SecuredBy(n))
  BY <1>4, <1>6, ConcatTasks
<1>10. /\ AreTasks((first \o opts) \o server, n, {}, {})
       /\ WillWrite((first \o opts) \o server, <<ServerPath(path), Any>>)
  BY <1>7, <1>9, ConcatTasks
<1>11. /\ AreTasks(((first \o opts) \o server) \o opts, n, {}, SecuredBy(n))
       /\ WillWrite(((first \o opts) \o server) \o opts, <<ServerPath(path), Any>>)
  BY <1>6, <1>10, ConcatTasks
<1>12. /\ AreTasks(IntegrationTasks(r, n, path), n, {}, {})
       /\ WillWrite(IntegrationTasks(r, n, path), <<ServerPath(path), Any>>)
       /\ WillWrite(IntegrationTasks(r, n, path), <<ProxyPath(path), Any>>)
  BY <1>5, <1>8, <1>11, ConcatTasks
<1> QED
  BY <1>1, <1>12 DEF WriteAll, path

LEMMA RoleTask ==
  ASSUME NEW n, NEW role
  PROVE  AreTasks(RoleTasks(role), n, {}, {})
BY RegisterTask, ConcatTasks DEF RoleTasks

LEMMA FileIsAll ==
  ASSUME request \in Requests, NEW n \in 1..Len(AllRoutes),
         AllRoutes[n].kind = "static", ~IsDirectory(AllRoutes[n])
  PROVE  WriteAll(FileTasks(AllRoutes[n], n, GivenPath(n)), n)
<1> DEFINE r == AllRoutes[n]
           path == GivenPath(n)
           key == <<"get", path>>
           role == <<n, "Role", key>>
           operation == Operation("object", n, {role} \cup BucketOf)
           first == RoleTasks(role) \o Register(<<n, "BucketObject", key>>)
<1>1. ~HasIndex(r) /\ Claims(n) = {<<path, "get">>}
  BY DEF HasIndex, Claims
<1>2. operation.route = n
  BY DEF Operation
<1>3. SwaggerMethod("GET") = "get"
  BY DEF SwaggerMethod
<1>4. AreTasks(first, n, {}, {})
  BY RoleTask, RegisterTask, ConcatTasks
<1>5. FileTasks(r, n, path) = first \o Options(r, n) \o Add(path, "GET", operation)
  BY DEF FileTasks
<1> HIDE DEF operation, first, path
<1>6. WriteAll(first \o Options(r, n) \o Add(path, "GET", operation), n)
  BY <1>1, <1>2, <1>3, <1>4, AddIsAll
<1> QED
  BY <1>5, <1>6 DEF path

LEMMA DirectoryIsAll ==
  ASSUME request \in Requests, NEW n \in 1..Len(AllRoutes), IsDirectory(AllRoutes[n])
  PROVE  WriteAll(DirectoryTasks(AllRoutes[n], n, GivenPath(n)), n)
<1> DEFINE r == AllRoutes[n]
           path == GivenPath(n)
           base == ServerPath(path)
           key == <<"get", base>>
           role == <<n, "Role", key>>
           reads == {role} \cup BucketOf
           child(file) == [do |-> "child", file |-> file, key |-> key, route |-> n,
                           path |-> base, reads |-> reads]
           children == [i \in DOMAIN r.files |-> child(r.files[i])]
           operation == Operation("object", n, reads)
           opts == Options(r, n)
           proxy == Add(ProxyPath(path), "ANY", operation)
           first == RoleTasks(role)
<1>1. Claims(n) = {<<ProxyPath(path), Any>>}
                    \cup (IF HasIndex(r) THEN {<<base, "get">>} ELSE {})
  BY DEF Claims, IsDirectory
<1>2. operation.route = n
  BY DEF Operation
<1>3. SwaggerMethod("ANY") = Any
  BY DEF SwaggerMethod, Any
<1>4. AreTasks(first, n, {}, {})
  BY RoleTask
<1>5. /\ AreTasks(children, n, {}, {})
      /\ HasIndex(r) =>
           /\ WillWrite(children, <<base, "get">>)
           /\ \A c : c[1] = base => WillTake(children, c)
  BY ChildTasks
<1>6. DirectoryTasks(r, n, path) = ((first \o children) \o opts) \o proxy
  BY DEF DirectoryTasks
<1> HIDE DEF first, children, operation, path, base
<1>7. AreTasks(opts, n, {}, SecuredBy(n))
  BY OptionTasks
<1>8. AreTasks(proxy, n, SecuredBy(n), {}) /\ WillWrite(proxy, <<ProxyPath(path), Any>>)
  BY <1>1, <1>2, <1>3, AddTask
<1> HIDE DEF opts, proxy
<1>9. /\ AreTasks(first \o children, n, {}, {})
      /\ \A c : WillWrite(children, c) => WillWrite(first \o children, c)
      /\ \A c : WillTake(children, c) => WillTake(first \o children, c)
  BY <1>4, <1>5, ConcatTasks
<1>10. /\ AreTasks((first \o children) \o opts, n, {}, SecuredBy(n))
       /\ \A c : WillWrite(first \o children, c) =>
                   WillWrite((first \o children) \o opts, c)
       /\ \A c : WillTake(first \o children, c) =>
                   WillTake((first \o children) \o opts, c)
  BY <1>7, <1>9, ConcatTasks
<1> DEFINE all == DirectoryTasks(r, n, path)
<1>11. /\ AreTasks(all, n, {}, {})
       /\ WillWrite(all, <<ProxyPath(path), Any>>)
       /\ \A c : WillWrite((first \o children) \o opts, c) => WillWrite(all, c)
       /\ \A c : WillTake((first \o children) \o opts, c) => WillTake(all, c)
  BY <1>6, <1>8, <1>10, ConcatTasks
<1> HIDE DEF all
<1>12. HasIndex(r) => /\ WillWrite(all, <<base, "get">>)
                      /\ \A c : c[1] = base => WillTake(all, c)
  BY <1>5, <1>9, <1>10, <1>11
<1>13. ASSUME NEW c \in Claims(n) PROVE WillWrite(all, c)
  BY <1>1, <1>11, <1>12
<1>14. base = ServerPath(GivenPath(n))
  BY DEF base, path
<1> QED
  BY <1>11, <1>12, <1>13, <1>14 DEF WriteAll, all, path

LEMMA StaticIsAll ==
  ASSUME request \in Requests, NEW n \in 1..Len(AllRoutes), AllRoutes[n].kind = "static"
  PROVE  WriteAll(StaticTasks(AllRoutes[n], n, GivenPath(n)), n)
<1> DEFINE r == AllRoutes[n]
           path == GivenPath(n)
           rest == CASE r.localPath = "file" -> FileTasks(r, n, path)
                     [] r.localPath = "directory" -> DirectoryTasks(r, n, path)
                     [] OTHER -> Throw
           first == IF request.staticRoutesBucket THEN <<>> ELSE Register(Bucket)
<1>1. WriteAll(rest, n)
  <2>1. CASE r.localPath = "file"
    BY <2>1, FileIsAll DEF IsDirectory
  <2>2. CASE r.localPath = "directory"
    BY <2>2, DirectoryIsAll DEF IsDirectory
  <2>3. CASE r.localPath \notin {"file", "directory"}
    BY <2>3, ThrowIsAll
  <2> QED
    BY <2>1, <2>2, <2>3
<1>2. AreTasks(first, n, {}, {})
  BY RegisterTask, EmptyTasks
<1>3. StaticTasks(r, n, path) = first \o rest
  BY DEF StaticTasks
<1> HIDE DEF first, rest
<1>4. /\ AreTasks(first \o rest, n, {}, {})
      /\ \A c : WillWrite(rest, c) => WillWrite(first \o rest, c)
      /\ \A c : WillTake(rest, c) => WillTake(first \o rest, c)
  BY <1>1, <1>2, ConcatTasks DEF WriteAll
<1> QED
  BY <1>1, <1>3, <1>4 DEF WriteAll

LEMMA RouteIsAll ==
  ASSUME request \in Requests, NEW n \in 1..Len(AllRoutes)
  PROVE  WriteAll(TasksOf(AllRoutes[n], n, PathOf(n)), n)
<1>1. AllRoutes[n].kind \in {"handler", "static", "integration", "raw"}
  BY RoutesOfRequest DEF IsRoute
<1>2. PathOf(n) = GivenPath(n)
  BY PathIsGiven
<1> QED
  BY <1>1, <1>2, HandlerIsAll, StaticIsAll, IntegrationIsAll, RawDataIsAll DEF TasksOf

LEMMA RouteTakes ==
  ASSUME NEW n, NEW ts, WriteAll(ts, n), NEW c, TakesOver(n, c)
  PROVE  WillTake(ts, c)
BY DEF TakesOver, WriteAll, WillWrite, WillTake, Takes

-----------------------------------------------------------------------------
(* The invariant.  Where the program stands, and the engine.               *)
Progress ==
  /\ request \in Requests
  /\ step \in {"start", "routes", "api", "waiting", "additional", "done",
               "failed", "unwritten"}
  /\ next \in 1..(Len(AllRoutes) + 1)
  /\ IsSeq(tasks)
  /\ tasks # <<>> => IsWriting /\ next # 1
  /\ step \in {"routes", "waiting", "additional"} => request.swaggerString = "none"
  /\ step = "done" /\ request.swaggerString = "none" => next = Len(AllRoutes) + 1

EngineTypes ==
  /\ created \in SUBSET registered
  /\ refused \in SUBSET (registered \ created)
  /\ failures \in 0..MaxFailures

Tasked == IsLive => \A t \in Elems(tasks) : IsTaskOf(t, Current)

(* An operation is its route's until a later route takes it over, which it *)
(* has done once its tasks are.                                            *)
Latest ==
  IsLive =>
    \A path \in DOMAIN paths : \A method \in DOMAIN paths[path] :
      LET n == paths[path][method].route
          c == <<path, method>>
      IN  /\ n \in 1..Current /\ c \in Claims(n)
          /\ \A k \in (n + 1)..Current :
               TakesOver(k, c) => k = Current /\ WillTake(tasks, c)

(* What a route claims and no later one took over is written, or will be.  *)
Kept ==
  IsLive =>
    \A n \in 1..Current : \A c \in Claims(n) :
      (\A k \in (n + 1)..Current : ~TakesOver(k, c)) =>
        IsServed(c[1], c[2]) \/ (n = Current /\ WillWrite(tasks, c))

Named ==
  /\ DOMAIN apiAuthorizers \subseteq DOMAIN definitions
  /\ security \subseteq DOMAIN definitions
  /\ \A path \in DOMAIN paths : \A method \in DOMAIN paths[path] :
       paths[path][method].security \subseteq DOMAIN definitions

(* A name has the definition of its one authorizer; api_key is the key's.  *)
Defined ==
  NoneIsCalledApiKey =>
    /\ ApiKey \notin DOMAIN apiAuthorizers
    /\ \A identity \in DOMAIN authorizerName : authorizerName[identity] # ApiKey
    /\ DOMAIN definitions \subseteq DOMAIN apiAuthorizers \cup {ApiKey}
    /\ \A name \in DOMAIN apiAuthorizers : definitions[name].of = apiAuthorizers[name]
    /\ ApiKey \in DOMAIN definitions => definitions[ApiKey].of = ApiKey

Ids(names) == {definitions[name].of : name \in names}

Behind ==
  NoneIsCalledApiKey =>
    \A path \in DOMAIN paths : \A method \in DOMAIN paths[path] :
      Ids(paths[path][method].security) = SecuredBy(paths[path][method].route)

Due == NoneIsCalledApiKey /\ IsLive => Leads(tasks, Ids(security), {})

DocInv ==
  /\ Progress /\ EngineTypes
  /\ Tasked /\ Latest /\ Kept
  /\ Named /\ Defined /\ Behind /\ Due

-----------------------------------------------------------------------------
(* What depends on the arguments alone does not change.                    *)
LEMMA RequestFrame ==
  ASSUME request' = request
  PROVE  /\ GivenRoutes' = GivenRoutes /\ AllRoutes' = AllRoutes
         /\ NoneIsCalledApiKey' = NoneIsCalledApiKey
         /\ \A n : Claims(n)' = Claims(n)
         /\ \A n : SecuredBy(n)' = SecuredBy(n)
         /\ \A n, c : TakesOver(n, c)' = TakesOver(n, c)
BY DEF GivenRoutes, AllRoutes, AdditionalRoutes, NoneIsCalledApiKey, Claims, SecuredBy,
       TakesOver, GivenPath, HasIndex, IsDirectory, IdentityOf, ApiKey, ServerPath,
       ProxyPath, SwaggerMethod, Any

LEMMA TasksFrame ==
  ASSUME request' = request
  PROVE  /\ \A t, n : IsTaskOf(t, n)' = IsTaskOf(t, n)
         /\ \A ts, c : WillWrite(ts, c)' = WillWrite(ts, c)
         /\ \A ts, c : WillTake(ts, c)' = WillTake(ts, c)
         /\ \A ts, s, u : Leads(ts, s, u)' = Leads(ts, s, u)
<1>1. \A t, n : IsTaskOf(t, n)' = IsTaskOf(t, n)
  BY RequestFrame DEF IsTaskOf, HasIndex, IsDirectory, GivenPath, ServerPath, SwaggerMethod
<1>2. /\ \A ts, c : WillWrite(ts, c)' = WillWrite(ts, c)
      /\ \A ts, c : WillTake(ts, c)' = WillTake(ts, c)
  BY RequestFrame DEF WillWrite, WillTake, Writes, Takes, IsIndex, Elems, SwaggerMethod
<1>3. \A t, s, u : Turns(t, s, u)' = Turns(t, s, u)
  BY RequestFrame DEF Turns, IdentityOf, ApiKey
<1>4. \A ts, s, u : Leads(ts, s, u)' = Leads(ts, s, u)
  BY <1>3 DEF Leads, IsTrace, IsSeq
<1> QED
  BY <1>1, <1>2, <1>4

LEMMA DocInit == Init => DocInv
<1> SUFFICES ASSUME Init PROVE DocInv
  OBVIOUS
<1>1. DOMAIN Empty = {}
  BY DEF Empty
<1>2. /\ request \in Requests /\ step = "start" /\ next = 1 /\ tasks = <<>>
      /\ security = {} /\ registered = {} /\ created = {} /\ refused = {} /\ failures = 0
      /\ DOMAIN authorizerName = {} /\ DOMAIN apiAuthorizers = {}
      /\ DOMAIN definitions = {} /\ DOMAIN paths = {}
  BY <1>1 DEF Init
<1>3. Progress
  BY <1>2, EmptySeq, RoutesOfRequest DEF Progress, IsWriting
<1>4. EngineTypes
  BY <1>2, FailuresAssumption DEF EngineTypes
<1>5. Tasked /\ Latest /\ Kept
  <2>1. 1..Current = {}
    BY <1>2 DEF Current
  <2> QED
    BY <1>2, <2>1, EmptySeq DEF Tasked, Latest, Kept
<1>6. Named /\ Defined /\ Behind
  BY <1>2 DEF Named, Defined, Behind
<1>7. Due
  <2>1. Ids(security) = {}
    BY <1>2 DEF Ids
  <2> QED
    BY <1>2, <2>1, EmptyLeads DEF Due
<1> QED
  BY <1>3, <1>4, <1>5, <1>6, <1>7 DEF DocInv

-----------------------------------------------------------------------------
(* Steps that leave the document and its tasks alone.                      *)
LEMMA QuietDoc ==
  ASSUME DocInv, UNCHANGED <<request, next, tasks, document>>, IsLive' => IsLive
  PROVE  (Tasked /\ Latest /\ Kept /\ Named /\ Defined /\ Behind /\ Due)'
<1>1. /\ UNCHANGED <<security, authorizerName, apiAuthorizers, definitions, paths>>
      /\ Current' = Current
  BY DEF document, Current
<1>2. Tasked'
  BY <1>1, TasksFrame DEF DocInv, Tasked, Elems
<1>3. Latest'
  BY <1>1, RequestFrame, TasksFrame, ZenonT(30) DEF DocInv, Latest
<1>4. Kept'
  BY <1>1, RequestFrame, TasksFrame DEF DocInv, Kept, IsServed
<1>5. Named' /\ Defined'
  BY <1>1, RequestFrame DEF DocInv, Named, Defined, ApiKey
<1>6. Behind'
  <2>1. \A names : Ids(names)' = Ids(names)
    BY <1>1 DEF Ids
  <2>2. /\ NoneIsCalledApiKey' = NoneIsCalledApiKey
        /\ \A n : SecuredBy(n)' = SecuredBy(n)
    BY RequestFrame
  <2>3. Behind
    BY DEF DocInv
  <2> QED
    BY <1>1, <2>1, <2>2, <2>3 DEF Behind
<1>7. Due'
  BY <1>1, RequestFrame, TasksFrame DEF DocInv, Due, Ids
<1> QED
  BY <1>2, <1>3, <1>4, <1>5, <1>6, <1>7

(* A refused route leaves nothing to be done.                              *)
LEMMA FailStep ==
  ASSUME DocInv, IsWriting, Fail
  PROVE  DocInv'
<1>1. /\ UNCHANGED <<request, next, security, authorizerName, apiAuthorizers,
                     definitions, paths, registered, created, refused, failures>>
      /\ tasks' = <<>> /\ step' \in {"failed", "unwritten"}
  BY DEF Fail, document, engine
<1>2. ~IsLive'
  BY <1>1 DEF IsLive
<1>3. (Tasked /\ Latest /\ Kept /\ Due)'
  BY <1>2 DEF Tasked, Latest, Kept, Due
<1>4. (Named /\ Defined /\ Behind)'
  BY <1>1, RequestFrame DEF DocInv, Named, Defined, Behind, Ids, ApiKey
<1>5. Progress'
  BY <1>1, RequestFrame, EmptySeq DEF DocInv, Progress
<1>6. EngineTypes'
  BY <1>1 DEF DocInv, EngineTypes
<1> QED
  BY <1>3, <1>4, <1>5, <1>6 DEF DocInv

LEMMA WritingIsLive ==
  ASSUME Progress, IsWriting
  PROVE  IsLive /\ request.swaggerString = "none"
BY DEF Progress, IsWriting, IsLive

(* From one phase to the next.                                             *)
LEMMA PhaseStep ==
  ASSUME DocInv, Start \/ Written \/ RegisterApi \/ StartAdditional
  PROVE  DocInv'
<1>1. /\ UNCHANGED <<request, next, tasks, document, created, refused, failures>>
      /\ registered \subseteq registered'
  BY DEF Start, Written, RegisterApi, StartAdditional, engine
<1>2. Progress /\ EngineTypes
  BY DEF DocInv
<1>3. Progress'
  <2>1. request \in Requests /\ request.swaggerString \in {"none", "valid", "invalid"}
    BY <1>2, RequestAssumption DEF Progress
  <2>2. Len(AllRoutes) \in Nat
    BY <2>1, RoutesOfRequest
  <2>3. AllRoutes' = AllRoutes
    BY <1>1, RequestFrame
  <2>4. CASE Start
    BY <1>1, <1>2, <2>1, <2>3, <2>4 DEF Start, Progress, IsWriting
  <2>5. CASE Written
    BY <1>1, <1>2, <2>1, <2>2, <2>3, <2>5 DEF Written, Progress, IsWriting, LastRoute
  <2>6. CASE RegisterApi
    BY <1>1, <1>2, <2>1, <2>3, <2>6 DEF RegisterApi, Progress, IsWriting
  <2>7. CASE StartAdditional
    BY <1>1, <1>2, <2>1, <2>3, <2>7 DEF StartAdditional, Progress, IsWriting
  <2> QED
    BY <2>4, <2>5, <2>6, <2>7
<1>4. EngineTypes'
  BY <1>1, <1>2 DEF EngineTypes
<1>5. IsLive' => IsLive
  BY <1>1 DEF IsLive, Start, Written, RegisterApi, StartAdditional, IsWriting
<1> QED
  BY <1>1, <1>3, <1>4, <1>5, QuietDoc DEF DocInv

(* A route is taken when the one before it is written.                     *)
LEMMA TakeStep ==
  ASSUME DocInv, TakeRoute
  PROVE  DocInv'
<1> DEFINE n == next
           ts == TasksOf(AllRoutes[n], n, PathOf(n))
<1>1. /\ UNCHANGED <<request, step, security, authorizerName, apiAuthorizers,
                     definitions, paths, registered, created, refused, failures>>
      /\ IsWriting /\ tasks = <<>> /\ next <= LastRoute
      /\ tasks' = ts /\ next' = next + 1
  BY DEF TakeRoute, document, engine
<1>2. Progress /\ IsLive
  BY <1>1, WritingIsLive DEF DocInv
<1>3. /\ request \in Requests /\ n \in 1..Len(AllRoutes) /\ Len(AllRoutes) \in Nat
      /\ Current = n - 1 /\ Current' = n
  <2>1. /\ request \in Requests /\ next \in 1..(Len(AllRoutes) + 1)
        /\ Len(GivenRoutes) \in Nat /\ Len(AllRoutes) \in Nat
        /\ Len(GivenRoutes) <= Len(AllRoutes)
    BY <1>2, RoutesOfRequest DEF Progress
  <2> QED
    BY <1>1, <2>1 DEF LastRoute, Current
<1>4. WriteAll(ts, n)
  BY <1>3, RouteIsAll
<1>5. \A c : TakesOver(n, c) => WillTake(ts, c)
  BY <1>4, RouteTakes
<1>6. \A c : ~WillTake(tasks, c) /\ ~WillWrite(tasks, c)
  BY <1>1, EmptySeq DEF WillTake, WillWrite
<1> HIDE DEF n, ts
<1>7. Progress'
  <2>1. AllRoutes' = AllRoutes
    BY <1>1, RequestFrame
  <2>2. IsSeq(tasks')
    BY <1>1, <1>4 DEF WriteAll, AreTasks, Leads
  <2>3. next' \in 1..(Len(AllRoutes) + 1)
    BY <1>1, <1>3 DEF n
  <2> QED
    BY <1>1, <1>2, <2>1, <2>2, <2>3 DEF Progress, IsWriting, IsSeq
<1>8. EngineTypes'
  BY <1>1 DEF DocInv, EngineTypes
<1>9. Tasked'
  BY <1>1, <1>3, <1>4, TasksFrame DEF Tasked, WriteAll, AreTasks, Elems
<1>10. Latest'
  <2> SUFFICES ASSUME NEW path \in DOMAIN paths, NEW method \in DOMAIN paths[path]
               PROVE  LET m == paths[path][method].route
                          c == <<path, method>>
                      IN  /\ m \in 1..n /\ c \in Claims(m)
                          /\ \A k \in (m + 1)..n :
                               TakesOver(k, c) => k = n /\ WillTake(ts, c)
    BY <1>1, <1>3, RequestFrame, TasksFrame DEF Latest
  <2> DEFINE m == paths[path][method].route
             c == <<path, method>>
  <2>1. /\ m \in 1..(n - 1) /\ c \in Claims(m)
        /\ \A k \in (m + 1)..(n - 1) : ~TakesOver(k, c)
    BY <1>2, <1>3, <1>6 DEF DocInv, Latest
  <2> HIDE DEF m, c
  <2>2. ASSUME NEW k \in (m + 1)..n, TakesOver(k, c) PROVE k = n /\ WillTake(ts, c)
    <3>1. k = n
      BY <1>3, <2>1, <2>2
    <3> QED
      BY <1>5, <2>2, <3>1
  <2>3. m \in 1..n
    BY <1>3, <2>1
  <2> QED
    BY <2>1, <2>2, <2>3 DEF m, c
<1>11. Kept'
  <2> SUFFICES ASSUME NEW m \in 1..n, NEW c \in Claims(m),
                      \A k \in (m + 1)..n : ~TakesOver(k, c)
               PROVE  IsServed(c[1], c[2]) \/ (m = n /\ WillWrite(ts, c))
    BY <1>1, <1>3, RequestFrame, TasksFrame DEF Kept, IsServed
  <2>1. CASE m = n
    BY <1>4, <2>1 DEF WriteAll
  <2>2. CASE m # n
    <3>1. m \in 1..(n - 1) /\ \A k \in (m + 1)..(n - 1) : ~TakesOver(k, c)
      BY <1>3, <2>2
    <3> QED
      BY <1>2, <1>3, <1>6, <3>1 DEF DocInv, Kept
  <2> QED
    BY <2>1, <2>2
<1>12. (Named /\ Defined)'
  BY <1>1, RequestFrame DEF DocInv, Named, Defined, ApiKey
<1>13. Behind'
  <2>1. \A names : Ids(names)' = Ids(names)
    BY <1>1 DEF Ids
  <2>2. Behind
    BY DEF DocInv
  <2> QED
    BY <1>1, <2>1, <2>2, RequestFrame DEF Behind
<1>14. Due'
  <2> SUFFICES ASSUME NoneIsCalledApiKey PROVE Leads(ts, Ids(security), {})
    <3>1. Ids(security)' = Ids(security)
      BY <1>1 DEF Ids
    <3> QED
      BY <1>1, <3>1, RequestFrame, TasksFrame DEF Due
  <2>1. Leads(<<>>, Ids(security), {})
    BY <1>1, <1>2 DEF DocInv, Due
  <2>2. Ids(security) = {}
    BY <2>1, EmptySeq DEF Leads, IsTrace
  <2> QED
    BY <1>4, <2>2 DEF WriteAll, AreTasks
<1> QED
  BY <1>7, <1>8, <1>9, <1>10, <1>11, <1>12, <1>13, <1>14 DEF DocInv

-----------------------------------------------------------------------------
(* The first of the tasks.                                                 *)
LEMMA FirstTask ==
  ASSUME DocInv, IsWriting, tasks # <<>>
  PROVE  /\ IsLive /\ IsTaskOf(Head(tasks), Current)
         /\ IsSeq(Tail(tasks)) /\ Elems(tasks) = {Head(tasks)} \cup Elems(Tail(tasks))
         /\ \A t \in Elems(Tail(tasks)) : IsTaskOf(t, Current)
         /\ request \in Requests /\ Current \in 1..Len(AllRoutes)
<1>1. Progress /\ IsLive /\ Tasked
  BY WritingIsLive DEF DocInv
<1>2. IsSeq(Tail(tasks)) /\ Elems(tasks) = {Head(tasks)} \cup Elems(Tail(tasks))
  BY <1>1, TailSeq, TailElems DEF Progress
<1>3. request \in Requests /\ Current \in 1..Len(AllRoutes)
  BY <1>1, RoutesOfRequest DEF Progress, Current
<1> QED
  BY <1>1, <1>2, <1>3 DEF Tasked

(* A task that neither writes nor refuses leaves the others to do so.      *)
LEMMA OthersRemain ==
  ASSUME DocInv, IsWriting, tasks # <<>>, Head(tasks).do \notin {"throw", "add"},
         ~IsIndex(Head(tasks)), NEW c
  PROVE  /\ WillWrite(tasks, c) => WillWrite(Tail(tasks), c)
         /\ WillTake(tasks, c) => WillTake(Tail(tasks), c)
BY FirstTask DEF WillWrite, WillTake, Takes, Writes

(* A step of a task that does not write.                                   *)
LEMMA PathsStay ==
  ASSUME DocInv, IsWriting, tasks # <<>>, UNCHANGED <<request, step, next, paths>>,
         IsSeq(tasks'), \A t \in Elems(tasks') : IsTaskOf(t, Current),
         \A c : WillWrite(tasks, c) => WillWrite(tasks', c),
         \A c : WillTake(tasks, c) => WillTake(tasks', c)
  PROVE  (Progress /\ Tasked /\ Latest /\ Kept)'
<1>1. Progress /\ IsLive /\ Latest /\ Kept
  BY WritingIsLive DEF DocInv
<1>2. AllRoutes' = AllRoutes /\ Current' = Current
  BY RequestFrame DEF Current
<1>3. Progress'
  BY <1>1, <1>2 DEF Progress, IsWriting, IsSeq
<1>4. Tasked'
  BY <1>2, TasksFrame DEF Tasked, Elems
<1>5. Latest'
  <2> SUFFICES ASSUME NEW path \in DOMAIN paths, NEW method \in DOMAIN paths[path]
               PROVE  LET n == paths[path][method].route
                          c == <<path, method>>
                      IN  /\ n \in 1..Current /\ c \in Claims(n)
                          /\ \A k \in (n + 1)..Current :
                               TakesOver(k, c) => k = Current /\ WillTake(tasks', c)
    BY <1>2, RequestFrame, TasksFrame, ZenonT(30) DEF Latest
  <2> QED
    BY <1>1 DEF Latest
<1>6. Kept'
  <2> SUFFICES ASSUME NEW m \in 1..Current, NEW c \in Claims(m),
                      \A k \in (m + 1)..Current : ~TakesOver(k, c)
               PROVE  IsServed(c[1], c[2]) \/ (m = Current /\ WillWrite(tasks', c))
    BY <1>2, RequestFrame, TasksFrame DEF Kept, IsServed
  <2> QED
    BY <1>1 DEF Kept
<1> QED
  BY <1>3, <1>4, <1>5, <1>6

(* Definitions are added to, and none is given to another.                 *)
LEMMA DefinitionsGrow ==
  ASSUME DocInv, UNCHANGED <<request, paths>>,
         \A name \in DOMAIN definitions :
           name \in DOMAIN definitions' /\ definitions'[name].of = definitions[name].of
  PROVE  /\ \A names \in SUBSET DOMAIN definitions : Ids(names)' = Ids(names)
         /\ \A path \in DOMAIN paths : \A method \in DOMAIN paths[path] :
              paths[path][method].security \subseteq DOMAIN definitions'
         /\ Behind'
<1>1. \A names \in SUBSET DOMAIN definitions : Ids(names)' = Ids(names)
  BY DEF Ids
<1>2. Named /\ Behind
  BY DEF DocInv
<1>3. \A path \in DOMAIN paths : \A method \in DOMAIN paths[path] :
        paths[path][method].security \subseteq DOMAIN definitions
  BY <1>2 DEF Named
<1>4. Behind'
  <2> SUFFICES ASSUME NoneIsCalledApiKey,
                      NEW path \in DOMAIN paths, NEW method \in DOMAIN paths[path]
               PROVE  Ids(paths[path][method].security)'
                        = SecuredBy(paths[path][method].route)
    BY RequestFrame DEF Behind
  <2>1. Ids(paths[path][method].security) = SecuredBy(paths[path][method].route)
    BY <1>2 DEF Behind
  <2> DEFINE names == paths[path][method].security
  <2>2. names \in SUBSET DOMAIN definitions /\ names' = names
    BY <1>3
  <2>3. Ids(names)' = {definitions'[name].of : name \in names}
    BY <2>2 DEF Ids
  <2> QED
    BY <1>1, <2>1, <2>2, <2>3
<1> QED
  BY <1>1, <1>3, <1>4

LEMMA RegisterStep ==
  ASSUME DocInv, RegisterResource
  PROVE  DocInv'
<1>1. /\ UNCHANGED <<request, step, next, security, authorizerName, apiAuthorizers,
                     definitions, paths, created, refused, failures>>
      /\ IsWriting /\ tasks # <<>> /\ Head(tasks).do = "register"
      /\ registered \subseteq registered' /\ tasks' = Tail(tasks)
  BY DEF RegisterResource, IsNextTask, document, engine
<1>2. (Progress /\ Tasked /\ Latest /\ Kept)'
  <2>1. ~IsIndex(Head(tasks))
    BY <1>1 DEF IsIndex
  <2> QED
    BY <1>1, <2>1, PathsStay, OthersRemain, FirstTask
<1>3. EngineTypes'
  BY <1>1 DEF DocInv, EngineTypes
<1>4. Named' /\ Defined' /\ Behind'
  BY <1>1, RequestFrame, DefinitionsGrow DEF DocInv, Named, Defined, ApiKey
<1>5. Due'
  <2> SUFFICES ASSUME NoneIsCalledApiKey PROVE Leads(Tail(tasks), Ids(security), {})
    <3>1. Ids(security)' = Ids(security)
      BY <1>1 DEF Ids
    <3> QED
      BY <1>1, <3>1, RequestFrame, TasksFrame DEF Due
  <2>1. Leads(tasks, Ids(security), {})
    BY <1>1, FirstTask DEF DocInv, Due
  <2> QED
    BY <1>1, <2>1, TailLeads DEF Turns
<1> QED
  BY <1>2, <1>3, <1>4, <1>5 DEF DocInv

-----------------------------------------------------------------------------
(* A file of a directory; the index brings a task that takes the path.     *)
LEMMA IndexIsWhole ==
  ASSUME request \in Requests, NEW n \in 1..Len(AllRoutes), NEW child,
         child.do = "child", IsTaskOf(child, n), IsIndex(child)
  PROVE  /\ AreTasks(IndexTasks(child), n, {}, {})
         /\ \A c : Writes(child, c) => WillWrite(IndexTasks(child), c)
         /\ \A c : Takes(child, c) => WillTake(IndexTasks(child), c)
<1> DEFINE t == [do |-> "index", path |-> child.path, route |-> child.route,
                 reads |-> child.reads]
           opts == Options(AllRoutes[n], n)
<1>1. child.route = n /\ child.path = ServerPath(GivenPath(n)) /\ HasIndex(AllRoutes[n])
  BY DEF IsTaskOf, IsIndex
<1>2. t.do = "index" /\ t.path = child.path /\ t.route = child.route
  OBVIOUS
<1>3. IndexTasks(child) = opts \o <<t>>
  BY <1>1 DEF IndexTasks
<1>4. AreTasks(opts, n, {}, SecuredBy(n))
  BY OptionTasks
<1> HIDE DEF t, opts
<1>5. Turns(t, SecuredBy(n), {}) /\ IsTaskOf(t, n)
  BY <1>1, <1>2 DEF Turns, IsTaskOf
<1>6. AreTasks(<<t>>, n, SecuredBy(n), {})
  BY <1>5, OneTask
<1>7. /\ AreTasks(IndexTasks(child), n, {}, {})
      /\ \A c : WillWrite(<<t>>, c) => WillWrite(IndexTasks(child), c)
      /\ \A c : WillTake(<<t>>, c) => WillTake(IndexTasks(child), c)
  BY <1>3, <1>4, <1>6, ConcatTasks
<1>8. /\ \A c : Writes(child, c) => WillWrite(<<t>>, c)
      /\ \A c : Takes(child, c) => WillTake(<<t>>, c)
  BY <1>2, OneSeq DEF Writes, Takes, IsIndex, WillWrite, WillTake
<1> QED
  BY <1>7, <1>8

LEMMA WalkIsQuiet ==
  ASSUME DocInv, WalkFile, NEW first, tasks' = first \o Tail(tasks),
         AreTasks(first, Current, {}, {}),
         \A c : Writes(Head(tasks), c) => WillWrite(first, c),
         \A c : Takes(Head(tasks), c) => WillTake(first, c)
  PROVE  DocInv'
<1>1. /\ UNCHANGED <<request, step, next, security, authorizerName, apiAuthorizers,
                     definitions, paths, created, refused, failures>>
      /\ IsWriting /\ tasks # <<>> /\ Head(tasks).do = "child"
      /\ registered \subseteq registered'
  BY DEF WalkFile, IsNextTask, document, engine
<1>2. /\ IsLive /\ IsSeq(Tail(tasks)) /\ IsSeq(first)
      /\ Elems(tasks) = {Head(tasks)} \cup Elems(Tail(tasks))
      /\ \A t \in Elems(Tail(tasks)) : IsTaskOf(t, Current)
  BY <1>1, FirstTask DEF AreTasks, Leads
<1>3. IsSeq(tasks') /\ Elems(tasks') = Elems(first) \cup Elems(Tail(tasks))
  BY <1>2, ConcatSeq, ConcatElems
<1>4. \A t \in Elems(tasks') : IsTaskOf(t, Current)
  BY <1>2, <1>3 DEF AreTasks
<1>5. \A c : WillWrite(tasks, c) => WillWrite(tasks', c)
  BY <1>1, <1>2, <1>3 DEF WillWrite
<1>6. \A c : WillTake(tasks, c) => WillTake(tasks', c)
  BY <1>1, <1>2, <1>3 DEF WillTake
<1>7. (Progress /\ Tasked /\ Latest /\ Kept)'
  BY <1>1, <1>3, <1>4, <1>5, <1>6, PathsStay
<1>8. EngineTypes'
  BY <1>1 DEF DocInv, EngineTypes
<1>9. Named' /\ Defined' /\ Behind'
  BY <1>1, RequestFrame, DefinitionsGrow DEF DocInv, Named, Defined, ApiKey
<1>10. Due'
  <2> SUFFICES ASSUME NoneIsCalledApiKey PROVE Leads(tasks', Ids(security), {})
    <3>1. Ids(security)' = Ids(security)
      BY <1>1 DEF Ids
    <3> QED
      BY <1>1, <3>1, RequestFrame, TasksFrame DEF Due
  <2>1. Leads(tasks, Ids(security), {})
    BY <1>2 DEF DocInv, Due
  <2>2. Ids(security) = {} /\ Leads(Tail(tasks), {}, {})
    BY <1>1, <2>1, TailLeads, ZenonT(30) DEF Turns
  <2> QED
    BY <2>2, ConcatLeads DEF AreTasks
<1> QED
  BY <1>7, <1>8, <1>9, <1>10 DEF DocInv

LEMMA WalkStep ==
  ASSUME DocInv, WalkFile
  PROVE  DocInv'
<1> DEFINE child == Head(tasks)
           first == IF child.file = AllRoutes[child.route].index
                    THEN IndexTasks(child) ELSE <<>>
           n == Current
<1>1. /\ UNCHANGED <<request, step, next, security, authorizerName, apiAuthorizers,
                     definitions, paths, created, refused, failures>>
      /\ IsWriting /\ tasks # <<>> /\ child.do = "child"
      /\ registered \subseteq registered' /\ tasks' = first \o Tail(tasks)
  BY DEF WalkFile, IsNextTask, document, engine
<1>2. /\ IsLive /\ IsTaskOf(child, n)
      /\ IsSeq(Tail(tasks)) /\ Elems(tasks) = {child} \cup Elems(Tail(tasks))
      /\ \A t \in Elems(Tail(tasks)) : IsTaskOf(t, n)
      /\ request \in Requests /\ tasks # <<>>
  BY <1>1, FirstTask
<1>3. n \in 1..Len(AllRoutes)
  BY <1>1, FirstTask
<1>4. CASE IsIndex(child)
  <2>1. first = IndexTasks(child)
    BY <1>1, <1>4 DEF IsIndex
  <2>2. /\ AreTasks(first, n, {}, {})
        /\ \A c : Writes(child, c) => WillWrite(first, c)
        /\ \A c : Takes(child, c) => WillTake(first, c)
    BY <1>1, <1>2, <1>3, <1>4, <2>1, IndexIsWhole
  <2> QED
    BY <1>1, <1>2, <2>2, WalkIsQuiet
<1>5. CASE ~IsIndex(child)
  <2>1. first = <<>>
    BY <1>1, <1>5 DEF IsIndex
  <2>2. AreTasks(first, n, {}, {})
    BY <2>1, EmptyTasks
  <2>3. \A c : ~Writes(child, c) /\ ~Takes(child, c)
    BY <1>1, <1>5 DEF Writes, Takes
  <2> QED
    BY <1>1, <1>2, <2>2, <2>3, WalkIsQuiet
<1> QED
  BY <1>4, <1>5

-----------------------------------------------------------------------------
(* An authorizer under a name that no other has.                           *)
IsPut(g, f, k, v) ==
  /\ DOMAIN g = DOMAIN f \cup {k}
  /\ g[k] = v
  /\ \A x \in DOMAIN f : x # k => g[x] = f[x]

LEMMA PutValue == ASSUME NEW f, NEW k, NEW v PROVE IsPut(Put(f, k, v), f, k, v)
BY DEF Put, IsPut

LEMMA NameIsNotApiKey ==
  ASSUME Defined, NoneIsCalledApiKey, NEW authorizer \in DOMAIN request.authorizers,
         NEW identity
  PROVE  NameOf(authorizer, identity) # ApiKey
<1>1. \A k : <<"authorizer", k>> # ApiKey
  BY DEF ApiKey
<1>2. identity \in DOMAIN authorizerName => authorizerName[identity] # ApiKey
  BY DEF Defined
<1>3. request.authorizers[authorizer].name # ApiKey
  BY DEF NoneIsCalledApiKey
<1> QED
  BY <1>1, <1>2, <1>3 DEF NameOf

LEMMA AuthorizerStep ==
  ASSUME DocInv, AddAuthorizer
  PROVE  DocInv'
<1> DEFINE authorizer == Head(tasks).authorizer
           n == Head(tasks).route
           identity == IdentityOf(authorizer, n)
           name == NameOf(authorizer, identity)
           resources == AuthorizerResources(authorizer, n, name)
           reads == {r \in resources : r[2] # "AuthorizerPolicy"}
           isTaken == name \in DOMAIN apiAuthorizers /\ apiAuthorizers[name] # identity
<1>1. IsWriting /\ tasks # <<>> /\ Head(tasks).do = "authorize"
  BY DEF AddAuthorizer, IsNextTask
<1>2. CASE isTaken
  BY <1>1, <1>2, FailStep DEF AddAuthorizer
<1>3. CASE ~isTaken
  <2>1. /\ UNCHANGED <<request, step, next, paths, created, refused, failures>>
        /\ authorizerName' = Put(authorizerName, identity, name)
        /\ apiAuthorizers' = Put(apiAuthorizers, name, identity)
        /\ security' = security \cup {name}
        /\ IF name \in DOMAIN definitions
           THEN UNCHANGED <<definitions, registered>>
           ELSE /\ definitions' = Put(definitions, name,
                                    [of |-> identity, reads |-> reads])
                /\ registered' = registered \cup resources
        /\ tasks' = Tail(tasks)
    BY <1>3 DEF AddAuthorizer, engine
  <2>2. authorizer \in DOMAIN request.authorizers /\ IsLive
    BY <1>1, FirstTask DEF IsTaskOf
  <2> DEFINE definition == [of |-> identity, reads |-> reads]
  <2>3. definition.of = identity
    OBVIOUS
  <2>4. NoneIsCalledApiKey => name # ApiKey
    BY <2>2, NameIsNotApiKey DEF DocInv
  <2> HIDE DEF name, identity, resources, reads, definition
  <2>5. IsPut(authorizerName', authorizerName, identity, name)
    BY <2>1, PutValue
  <2>6. /\ DOMAIN apiAuthorizers' = DOMAIN apiAuthorizers \cup {name}
        /\ apiAuthorizers'[name] = identity
        /\ \A x \in DOMAIN apiAuthorizers : x # name =>
             apiAuthorizers'[x] = apiAuthorizers[x]
    <3>1. IsPut(apiAuthorizers', apiAuthorizers, name, identity)
      BY <2>1, PutValue
    <3> QED
      BY <3>1 DEF IsPut
  <2>7. /\ DOMAIN definitions' = DOMAIN definitions \cup {name}
        /\ name \notin DOMAIN definitions => definitions'[name].of = identity
        /\ \A x \in DOMAIN definitions : definitions'[x] = definitions[x]
        /\ registered \subseteq registered'
    <3>1. CASE name \in DOMAIN definitions
      BY <2>1, <3>1
    <3>2. CASE name \notin DOMAIN definitions
      <4>1. IsPut(definitions', definitions, name, definition)
        BY <2>1, <3>2, PutValue DEF definition
      <4> QED
        BY <2>1, <2>3, <3>2, <4>1 DEF IsPut
    <3> QED
      BY <3>1, <3>2
  <2>8. (Progress /\ Tasked /\ Latest /\ Kept)'
    <3>1. ~IsIndex(Head(tasks))
      BY <1>1 DEF IsIndex
    <3> QED
      BY <1>1, <2>1, <3>1, PathsStay, OthersRemain, FirstTask
  <2>9. EngineTypes'
    BY <2>1, <2>7 DEF DocInv, EngineTypes
  <2>10. /\ \A names \in SUBSET DOMAIN definitions : Ids(names)' = Ids(names)
         /\ Named' /\ Behind'
    BY <2>1, <2>6, <2>7, DefinitionsGrow DEF DocInv, Named
  <2>11. NoneIsCalledApiKey => definitions'[name].of = identity
    BY <1>3, <2>4, <2>7 DEF DocInv, Defined
  <2>12. Defined'
    <3> SUFFICES ASSUME NoneIsCalledApiKey
                 PROVE  /\ ApiKey \notin DOMAIN apiAuthorizers'
                        /\ \A id \in DOMAIN authorizerName' : authorizerName'[id] # ApiKey
                        /\ DOMAIN definitions' \subseteq DOMAIN apiAuthorizers' \cup {ApiKey}
                        /\ \A x \in DOMAIN apiAuthorizers' :
                             definitions'[x].of = apiAuthorizers'[x]
                        /\ ApiKey \in DOMAIN definitions' =>
                             definitions'[ApiKey].of = ApiKey
      BY <2>1, RequestFrame DEF Defined, ApiKey
    <3>1. Defined /\ Named
      BY DEF DocInv
    <3>2. \A x \in DOMAIN apiAuthorizers' : definitions'[x].of = apiAuthorizers'[x]
      BY <2>6, <2>7, <2>11, <3>1 DEF Defined, Named
    <3> QED
      BY <2>4, <2>5, <2>6, <2>7, <3>1, <3>2 DEF Defined, IsPut
  <2>13. Due'
    <3> SUFFICES ASSUME NoneIsCalledApiKey
                 PROVE  Leads(Tail(tasks), Ids(security)', {})
      BY <2>1, RequestFrame, TasksFrame DEF Due
    <3>1. Leads(tasks, Ids(security), {})
      BY <2>2 DEF DocInv, Due
    <3>2. PICK u : Turns(Head(tasks), Ids(security), u) /\ Leads(Tail(tasks), u, {})
      BY <1>1, <3>1, TailLeads
    <3>3. \A x \in security : definitions'[x].of = definitions[x].of
      BY <2>7 DEF DocInv, Named
    <3>4. Ids(security)' = Ids(security) \cup {identity}
      BY <2>1, <2>11, <3>3 DEF Ids
    <3>5. u = Ids(security) \cup {identity}
      BY <1>1, <3>2 DEF Turns, identity
    <3> QED
      BY <3>2, <3>4, <3>5
  <2> QED
    BY <2>8, <2>9, <2>10, <2>12, <2>13 DEF DocInv
<1> QED
  BY <1>2, <1>3

LEMMA ApiKeyStep ==
  ASSUME DocInv, AddApiKey
  PROVE  DocInv'
<1> DEFINE isTaken == ApiKey \in DOMAIN definitions /\ definitions[ApiKey].of # ApiKey
           definition == [of |-> ApiKey, reads |-> {}]
<1>1. IsWriting /\ tasks # <<>> /\ Head(tasks).do = "apiKey"
  BY DEF AddApiKey, IsNextTask
<1>2. CASE isTaken
  BY <1>1, <1>2, FailStep DEF AddApiKey
<1>3. CASE ~isTaken
  <2>1. /\ UNCHANGED <<request, step, next, authorizerName, apiAuthorizers, paths,
                       registered, created, refused, failures>>
        /\ definitions' = Put(definitions, ApiKey, definition)
        /\ security' = security \cup {ApiKey}
        /\ tasks' = Tail(tasks)
    BY <1>3 DEF AddApiKey, engine
  <2>2. IsLive
    BY <1>1, FirstTask
  <2>3. definition.of = ApiKey
    OBVIOUS
  <2> HIDE DEF definition
  <2>4. /\ DOMAIN definitions' = DOMAIN definitions \cup {ApiKey}
        /\ definitions'[ApiKey].of = ApiKey
        /\ \A x \in DOMAIN definitions : definitions'[x].of = definitions[x].of
    <3>1. IsPut(definitions', definitions, ApiKey, definition)
      BY <2>1, PutValue
    <3> QED
      BY <1>3, <2>3, <3>1 DEF IsPut
  <2>5. (Progress /\ Tasked /\ Latest /\ Kept)'
    <3>1. ~IsIndex(Head(tasks))
      BY <1>1 DEF IsIndex
    <3> QED
      BY <1>1, <2>1, <3>1, PathsStay, OthersRemain, FirstTask
  <2>6. EngineTypes'
    BY <2>1 DEF DocInv, EngineTypes
  <2>7. Named' /\ Behind'
    BY <2>1, <2>4, DefinitionsGrow DEF DocInv, Named
  <2>8. ApiKey' = ApiKey
    BY DEF ApiKey
  <2>9. Defined'
    <3>1. Defined /\ Named
      BY DEF DocInv
    <3> QED
      BY <2>1, <2>4, <2>8, <3>1, RequestFrame DEF Defined, Named
  <2>10. Due'
    <3> SUFFICES ASSUME NoneIsCalledApiKey
                 PROVE  Leads(Tail(tasks), Ids(security)', {})
      BY <2>1, RequestFrame, TasksFrame DEF Due
    <3>1. Leads(tasks, Ids(security), {})
      BY <2>2 DEF DocInv, Due
    <3>2. Leads(Tail(tasks), Ids(security) \cup {ApiKey}, {})
      BY <1>1, <3>1, TailLeads DEF Turns
    <3>3. \A x \in security : definitions'[x].of = definitions[x].of
      BY <2>4 DEF DocInv, Named
    <3>4. Ids(security)' = Ids(security) \cup {ApiKey}
      BY <2>1, <2>4, <3>3 DEF Ids
    <3> QED
      BY <3>2, <3>4
  <2> QED
    BY <2>5, <2>6, <2>7, <2>9, <2>10 DEF DocInv
<1> QED
  BY <1>2, <1>3

-----------------------------------------------------------------------------
(* A task that writes.                                                     *)
LEMMA TailStays ==
  ASSUME DocInv, IsWriting, tasks # <<>>, UNCHANGED <<request, step, next>>,
         tasks' = Tail(tasks)
  PROVE  (Progress /\ Tasked)'
<1>1. AllRoutes' = AllRoutes /\ Current' = Current
  BY RequestFrame DEF Current
<1>2. IsSeq(Tail(tasks)) /\ \A t \in Elems(Tail(tasks)) : IsTaskOf(t, Current)
  BY FirstTask
<1>3. Progress'
  BY <1>1, <1>2 DEF DocInv, Progress, IsWriting, IsSeq
<1>4. Tasked'
  BY <1>1, <1>2, TasksFrame DEF Tasked, Elems
<1> QED
  BY <1>3, <1>4

(* An operation is written when what it is due is asked for.               *)
LEMMA WriterIsDue ==
  ASSUME DocInv, IsWriting, tasks # <<>>, NoneIsCalledApiKey,
         NEW n, \/ Head(tasks).do = "add" /\ n = Head(tasks).operation.route
                \/ Head(tasks).do = "index" /\ n = Head(tasks).route
  PROVE  Ids(security) = SecuredBy(n) /\ Leads(Tail(tasks), {}, {})
<1>1. Leads(tasks, Ids(security), {})
  BY FirstTask DEF DocInv, Due
<1>2. PICK u : Turns(Head(tasks), Ids(security), u) /\ Leads(Tail(tasks), u, {})
  BY <1>1, TailLeads
<1>3. u = {} /\ Ids(security) = SecuredBy(n)
  BY <1>2 DEF Turns
<1> QED
  BY <1>2, <1>3

LEMMA AddStep ==
  ASSUME DocInv, AddOperation
  PROVE  DocInv'
<1> DEFINE task == Head(tasks)
           p == task.path
           m == SwaggerMethod(task.method)
           value == Secured(task.operation)
           n == Current
           isServed(path, method) == path \in DOMAIN paths' /\ method \in DOMAIN paths'[path]
<1>1. /\ UNCHANGED <<request, step, next, authorizerName, apiAuthorizers, definitions,
                     registered, created, refused, failures>>
      /\ IsWriting /\ tasks # <<>> /\ task.do = "add"
      /\ paths' = Entered(paths, p, m, value)
      /\ security' = {} /\ tasks' = Tail(tasks)
  BY DEF AddOperation, IsNextTask, engine
<1>2. IsEntered(paths', paths, p, m, value)
  BY <1>1, EnteredValue
<1>3. value.route = task.operation.route /\ value.security = security
  BY DEF Secured
<1>4. /\ IsLive /\ Elems(tasks) = {task} \cup Elems(Tail(tasks))
      /\ task.operation.route = n /\ <<p, m>> \in Claims(n)
      /\ request \in Requests /\ n \in 1..Len(AllRoutes)
  BY <1>1, FirstTask DEF IsTaskOf
<1>5. \A c : Takes(task, c) => c = <<p, m>>
  BY <1>1 DEF Takes, Writes, IsIndex
<1> HIDE DEF task, p, m, value, n
<1>6. \A path \in DOMAIN paths' : \A method \in DOMAIN paths'[path] :
        \/ path = p /\ method = m /\ paths'[path][method] = value
        \/ /\ ~(path = p /\ method = m)
           /\ path \in DOMAIN paths /\ method \in DOMAIN paths[path]
           /\ paths'[path][method] = paths[path][method]
  BY <1>2 DEF IsEntered, At, Empty
<1>7. /\ isServed(p, m)
      /\ \A path, method : IsServed(path, method) => isServed(path, method)
  BY <1>2 DEF IsEntered, At, Empty, IsServed
<1>8. (Progress /\ Tasked)'
  BY <1>1, TailStays
<1>9. EngineTypes'
  BY <1>1 DEF DocInv, EngineTypes
<1>10. Current' = n
  BY <1>1 DEF Current, n
<1>11. Latest'
  <2> SUFFICES ASSUME NEW path \in DOMAIN paths', NEW method \in DOMAIN paths'[path]
               PROVE  LET r == paths'[path][method].route
                          c == <<path, method>>
                      IN  /\ r \in 1..n /\ c \in Claims(r)
                          /\ \A k \in (r + 1)..n :
                               TakesOver(k, c) => k = n /\ WillTake(Tail(tasks), c)
    BY <1>1, <1>10, RequestFrame, TasksFrame DEF Latest
  <2>1. CASE path = p /\ method = m /\ paths'[path][method] = value
    <3>1. paths'[path][method].route = n
      BY <1>3, <1>4, <2>1
    <3>2. n \in 1..n /\ (n + 1)..n = {}
      BY <1>4
    <3> QED
      BY <1>4, <2>1, <3>1, <3>2
  <2>2. CASE /\ ~(path = p /\ method = m)
             /\ path \in DOMAIN paths /\ method \in DOMAIN paths[path]
             /\ paths'[path][method] = paths[path][method]
    <3> DEFINE c == <<path, method>>
               r == paths[path][method].route
    <3>1. /\ r \in 1..n /\ c \in Claims(r)
          /\ \A k \in (r + 1)..n : TakesOver(k, c) => k = n /\ WillTake(tasks, c)
      BY <1>4, <2>2 DEF DocInv, Latest, n
    <3>2. c # <<p, m>>
      BY <2>2
    <3> HIDE DEF c, r
    <3>3. WillTake(tasks, c) => WillTake(Tail(tasks), c)
      BY <1>1, <1>4, <1>5, <3>2 DEF WillTake
    <3> QED
      BY <2>2, <3>1, <3>3 DEF c, r
  <2> QED
    BY <1>6, <2>1, <2>2
<1>12. Kept'
  <2> SUFFICES ASSUME NEW r \in 1..n, NEW c \in Claims(r),
                      \A k \in (r + 1)..n : ~TakesOver(k, c)
               PROVE  isServed(c[1], c[2]) \/ (r = n /\ WillWrite(Tail(tasks), c))
    BY <1>1, <1>10, RequestFrame, TasksFrame DEF Kept, IsServed
  <2>1. IsServed(c[1], c[2]) \/ (r = n /\ WillWrite(tasks, c))
    BY <1>4 DEF DocInv, Kept, n
  <2>2. Writes(task, c) => isServed(c[1], c[2])
    <3>1. Writes(task, c) => c = <<p, m>>
      BY <1>5 DEF Takes
    <3> QED
      BY <1>7, <3>1
  <2>3. WillWrite(tasks, c) => Writes(task, c) \/ WillWrite(Tail(tasks), c)
    BY <1>1, <1>4 DEF WillWrite
  <2> QED
    BY <1>7, <2>1, <2>2, <2>3
<1>13. Named'
  BY <1>1, <1>3, <1>6 DEF DocInv, Named
<1>14. Defined'
  BY <1>1, RequestFrame DEF DocInv, Defined, ApiKey
<1>15. \A names : Ids(names)' = Ids(names)
  BY <1>1 DEF Ids
<1>16. Behind'
  <2> SUFFICES ASSUME NoneIsCalledApiKey, NEW path \in DOMAIN paths',
                      NEW method \in DOMAIN paths'[path]
               PROVE  Ids(paths'[path][method].security)
                        = SecuredBy(paths'[path][method].route)
    BY <1>1, <1>15, RequestFrame DEF Behind
  <2>1. Ids(security) = SecuredBy(n)
    BY <1>1, <1>4, WriterIsDue DEF task
  <2> QED
    BY <1>3, <1>4, <1>6, <2>1 DEF DocInv, Behind
<1>17. Due'
  <2> SUFFICES ASSUME NoneIsCalledApiKey PROVE Leads(Tail(tasks), {}, {})
    <3>1. Ids(security)' = {}
      BY <1>1 DEF Ids
    <3> QED
      BY <1>1, <3>1, RequestFrame, TasksFrame DEF Due
  <2> QED
    BY <1>1, WriterIsDue DEF task
<1> QED
  BY <1>8, <1>9, <1>11, <1>12, <1>13, <1>14, <1>16, <1>17 DEF DocInv

(* The index takes the whole path.                                         *)
LEMMA IndexStep ==
  ASSUME DocInv, AddIndex
  PROVE  DocInv'
<1> DEFINE task == Head(tasks)
           p == task.path
           value == Secured(Operation("object", task.route, task.reads))
           row == Put(Empty, "get", value)
           n == Current
           isServed(path, method) == path \in DOMAIN paths' /\ method \in DOMAIN paths'[path]
<1>1. /\ UNCHANGED <<request, step, next, authorizerName, apiAuthorizers, definitions,
                     registered, created, refused, failures>>
      /\ IsWriting /\ tasks # <<>> /\ task.do = "index"
      /\ paths' = Put(paths, p, row)
      /\ security' = {} /\ tasks' = Tail(tasks)
  BY DEF AddIndex, IsNextTask, engine
<1>2. DOMAIN row = {"get"} /\ row["get"] = value
  <2>1. IsPut(row, Empty, "get", value)
    BY PutValue
  <2> HIDE DEF row
  <2> QED
    BY <2>1 DEF IsPut, Empty
<1>3. value.route = task.route /\ value.security = security
  BY DEF Secured, Operation
<1>4. /\ IsLive /\ Elems(tasks) = {task} \cup Elems(Tail(tasks))
      /\ task.route = n /\ HasIndex(AllRoutes[n]) /\ p = ServerPath(GivenPath(n))
      /\ request \in Requests /\ n \in 1..Len(AllRoutes)
  BY <1>1, FirstTask DEF IsTaskOf
<1>5. \A c : TakesOver(n, c) <=> (c \in Claims(n) \/ c[1] = p)
  BY <1>4 DEF TakesOver
<1>6. Claims(n) = {<<ProxyPath(GivenPath(n)), Any>>, <<p, "get">>}
  BY <1>4 DEF Claims, HasIndex, IsDirectory
<1>7. ProxyPath(GivenPath(n)) # p
  BY <1>4, PathIsGiven, ProxyIsElsewhere
<1>8. \A c : Takes(task, c) => c[1] = p
  BY <1>1 DEF Takes, Writes, IsIndex
<1> HIDE DEF row
<1>9. IsPut(paths', paths, p, row)
  BY <1>1, PutValue
<1> HIDE DEF task, p, value, n
<1>10. \A path \in DOMAIN paths' : \A method \in DOMAIN paths'[path] :
         \/ path = p /\ method = "get" /\ paths'[path][method] = value
         \/ /\ path # p
            /\ path \in DOMAIN paths /\ method \in DOMAIN paths[path]
            /\ paths'[path][method] = paths[path][method]
  BY <1>2, <1>9 DEF IsPut
<1>11. /\ isServed(p, "get")
       /\ \A path, method : IsServed(path, method) /\ path # p => isServed(path, method)
  BY <1>2, <1>9 DEF IsPut, IsServed
<1>12. (Progress /\ Tasked)'
  BY <1>1, TailStays
<1>13. EngineTypes'
  BY <1>1 DEF DocInv, EngineTypes
<1>14. Current' = n
  BY <1>1 DEF Current, n
<1>15. Latest'
  <2> SUFFICES ASSUME NEW path \in DOMAIN paths', NEW method \in DOMAIN paths'[path]
               PROVE  LET r == paths'[path][method].route
                          c == <<path, method>>
                      IN  /\ r \in 1..n /\ c \in Claims(r)
                          /\ \A k \in (r + 1)..n :
                               TakesOver(k, c) => k = n /\ WillTake(Tail(tasks), c)
    BY <1>1, <1>14, RequestFrame, TasksFrame DEF Latest
  <2>1. CASE path = p /\ method = "get" /\ paths'[path][method] = value
    <3>1. paths'[path][method].route = n
      BY <1>3, <1>4, <2>1
    <3>2. n \in 1..n /\ (n + 1)..n = {}
      BY <1>4
    <3> QED
      BY <1>6, <2>1, <3>1, <3>2
  <2>2. CASE /\ path # p
             /\ path \in DOMAIN paths /\ method \in DOMAIN paths[path]
             /\ paths'[path][method] = paths[path][method]
    <3> DEFINE c == <<path, method>>
               r == paths[path][method].route
    <3>1. /\ r \in 1..n /\ c \in Claims(r)
          /\ \A k \in (r + 1)..n : TakesOver(k, c) => k = n /\ WillTake(tasks, c)
      BY <1>4, <2>2 DEF DocInv, Latest, n
    <3>2. c[1] # p
      BY <2>2
    <3> HIDE DEF c, r
    <3>3. WillTake(tasks, c) => WillTake(Tail(tasks), c)
      BY <1>1, <1>4, <1>8, <3>2 DEF WillTake
    <3> QED
      BY <2>2, <3>1, <3>3 DEF c, r
  <2> QED
    BY <1>10, <2>1, <2>2
<1>16. Kept'
  <2> SUFFICES ASSUME NEW r \in 1..n, NEW c \in Claims(r),
                      \A k \in (r + 1)..n : ~TakesOver(k, c)
               PROVE  isServed(c[1], c[2]) \/ (r = n /\ WillWrite(Tail(tasks), c))
    BY <1>1, <1>14, RequestFrame, TasksFrame DEF Kept, IsServed
  <2>1. IsServed(c[1], c[2]) \/ (r = n /\ WillWrite(tasks, c))
    BY <1>4 DEF DocInv, Kept, n
  <2>2. WillWrite(tasks, c) => Writes(task, c) \/ WillWrite(Tail(tasks), c)
    BY <1>1, <1>4 DEF WillWrite
  <2>3. CASE c[1] = p
    <3>1. r = n
      <4>1. r # n => n \in (r + 1)..n
        BY <1>4
      <4> QED
        BY <1>5, <2>3, <4>1
    <3>2. c = <<p, "get">>
      BY <1>6, <1>7, <2>3, <3>1
    <3> QED
      BY <1>11, <3>2
  <2>4. CASE c[1] # p
    <3>1. ~Writes(task, c)
      BY <1>8, <2>4 DEF Takes
    <3> QED
      BY <1>11, <2>1, <2>2, <2>4, <3>1
  <2> QED
    BY <2>3, <2>4
<1>17. Named'
  BY <1>1, <1>3, <1>10 DEF DocInv, Named
<1>18. Defined'
  BY <1>1, RequestFrame DEF DocInv, Defined, ApiKey
<1>19. \A names : Ids(names)' = Ids(names)
  BY <1>1 DEF Ids
<1>20. Behind'
  <2> SUFFICES ASSUME NoneIsCalledApiKey, NEW path \in DOMAIN paths',
                      NEW method \in DOMAIN paths'[path]
               PROVE  Ids(paths'[path][method].security)
                        = SecuredBy(paths'[path][method].route)
    BY <1>1, <1>19, RequestFrame DEF Behind
  <2>1. Ids(security) = SecuredBy(n)
    BY <1>1, <1>4, WriterIsDue DEF task
  <2> QED
    BY <1>3, <1>4, <1>10, <2>1 DEF DocInv, Behind
<1>21. Due'
  <2> SUFFICES ASSUME NoneIsCalledApiKey PROVE Leads(Tail(tasks), {}, {})
    <3>1. Ids(security)' = {}
      BY <1>1 DEF Ids
    <3> QED
      BY <1>1, <3>1, RequestFrame, TasksFrame DEF Due
  <2> QED
    BY <1>1, WriterIsDue DEF task
<1> QED
  BY <1>12, <1>13, <1>15, <1>16, <1>17, <1>18, <1>20, <1>21 DEF DocInv

-----------------------------------------------------------------------------
(* The engine writes nothing.                                              *)
LEMMA EngineStep ==
  ASSUME DocInv, UNCHANGED program, EngineTypes'
  PROVE  DocInv'
<1>1. UNCHANGED <<request, next, tasks, document, step>>
  BY DEF program
<1>2. IsLive' => IsLive
  BY <1>1 DEF IsLive
<1>3. Progress'
  BY <1>1, RequestFrame DEF DocInv, Progress, IsWriting, IsSeq
<1> QED
  BY <1>1, <1>2, <1>3, QuietDoc DEF DocInv

LEMMA DocStep == DocInv /\ [Next]_vars => DocInv'
<1> SUFFICES ASSUME DocInv, [Next]_vars PROVE DocInv'
  OBVIOUS
<1>1. EngineTypes
  BY DEF DocInv
<1>2. CASE Start \/ Written \/ RegisterApi \/ StartAdditional
  BY <1>2, PhaseStep
<1>3. CASE RefuseRoute
  BY <1>3, FailStep DEF RefuseRoute, IsNextTask
<1>4. ASSUME NEW r \in registered, Create(r) PROVE DocInv'
  <2>1. EngineTypes'
    BY <1>1, <1>4 DEF EngineTypes, Create, IsReady, program
  <2> QED
    BY <1>4, <2>1, EngineStep DEF Create
<1>5. ASSUME NEW r \in registered, Refuse(r) PROVE DocInv'
  <2>1. EngineTypes'
    BY <1>1, <1>5, FailuresAssumption DEF EngineTypes, Refuse, IsReady, program
  <2> QED
    BY <1>5, <2>1, EngineStep DEF Refuse
<1>6. CASE UNCHANGED vars
  <2>1. EngineTypes'
    BY <1>1, <1>6 DEF EngineTypes, vars, program, engine
  <2> QED
    BY <1>6, <2>1, EngineStep DEF vars
<1> QED
  BY <1>2, <1>3, <1>4, <1>5, <1>6, TakeStep, RegisterStep, WalkStep, AuthorizerStep,
     ApiKeyStep, AddStep, IndexStep DEF Next, Construct, WriteRoute, Engine

-----------------------------------------------------------------------------
(* When all routes are written, the invariant says it of all of them.      *)
LEMMA AllIsWritten ==
  ASSUME DocInv, step = "done", request.swaggerString = "none"
  PROVE  /\ IsLive /\ tasks = <<>> /\ Current = Len(AllRoutes)
         /\ DOMAIN AllRoutes = 1..Len(AllRoutes) /\ Len(AllRoutes) \in Nat
         /\ \A c : ~WillWrite(tasks, c) /\ ~WillTake(tasks, c)
<1>1. Progress
  BY DEF DocInv
<1>2. DOMAIN AllRoutes = 1..Len(AllRoutes) /\ Len(AllRoutes) \in Nat
  BY <1>1, RoutesOfRequest DEF Progress
<1>3. tasks = <<>> /\ Current = Len(AllRoutes)
  BY <1>1, <1>2 DEF Progress, IsWriting, Current
<1> QED
  BY <1>2, <1>3, EmptySeq DEF IsLive, WillWrite, WillTake

LEMMA DocumentIsRight == DocInv => DocumentIsAsGiven
<1> SUFFICES ASSUME DocInv PROVE DocumentIsAsGiven
  OBVIOUS
<1>1. TypeOK
  BY DEF DocInv, Progress, EngineTypes, Named, TypeOK
<1> SUFFICES ASSUME step = "done", request.swaggerString = "none"
             PROVE  /\ \A path \in DOMAIN paths : \A method \in DOMAIN paths[path] :
                         Owner(<<path, method>>) = {paths[path][method].route}
                    /\ \A claim \in AllClaims :
                         Owner(claim) # {} => IsServed(claim[1], claim[2])
                    /\ NoneIsCalledApiKey =>
                         \A path \in DOMAIN paths : \A method \in DOMAIN paths[path] :
                           Ids(paths[path][method].security)
                             = SecuredBy(paths[path][method].route)
  BY <1>1 DEF DocumentIsAsGiven, Ids
<1> DEFINE last == Len(AllRoutes)
<1>2. /\ IsLive /\ Current = last /\ DOMAIN AllRoutes = 1..last /\ last \in Nat
      /\ \A c : ~WillWrite(tasks, c) /\ ~WillTake(tasks, c)
  BY AllIsWritten
<1> HIDE DEF last
<1>3. ASSUME NEW path \in DOMAIN paths, NEW method \in DOMAIN paths[path]
      PROVE  Owner(<<path, method>>) = {paths[path][method].route}
  <2> DEFINE c == <<path, method>>
             r == paths[path][method].route
  <2>1. /\ r \in 1..last /\ c \in Claims(r)
        /\ \A k \in (r + 1)..last : ~TakesOver(k, c)
    BY <1>2 DEF DocInv, Latest
  <2> HIDE DEF c, r
  <2>2. r \in Owner(c)
    BY <1>2, <2>1 DEF Owner
  <2>3. ASSUME NEW k \in Owner(c) PROVE k = r
    <3>1. /\ k \in 1..last /\ c \in Claims(k)
          /\ \A m \in 1..last : m > k => ~TakesOver(m, c)
      BY <1>2 DEF Owner
    <3>2. TakesOver(k, c) /\ TakesOver(r, c)
      BY <2>1, <3>1 DEF TakesOver
    <3>3. ~(k > r) /\ ~(r > k)
      BY <1>2, <2>1, <3>1, <3>2
    <3> QED
      BY <1>2, <2>1, <3>1, <3>3
  <2> QED
    BY <2>2, <2>3 DEF c, r
<1>4. ASSUME NEW claim \in AllClaims, Owner(claim) # {}
      PROVE  IsServed(claim[1], claim[2])
  <2>1. PICK k \in 1..last :
          claim \in Claims(k) /\ \A m \in 1..last : m > k => ~TakesOver(m, claim)
    BY <1>2, <1>4 DEF Owner
  <2>2. \A m \in (k + 1)..last : ~TakesOver(m, claim)
    BY <1>2, <2>1
  <2> QED
    BY <1>2, <2>1, <2>2 DEF DocInv, Kept
<1>5. Behind
  BY DEF DocInv
<1> QED
  BY <1>3, <1>4, <1>5 DEF Behind

(* Whatever the routes, and however their paths meet: the finished         *)
(* document has for each path and method the operation of the last route   *)
(* that asks for it, nothing that no route asked for, and behind each      *)
(* operation exactly its route's authorizers and key.                      *)
THEOREM DocumentStaysAsGiven == Spec => []DocumentIsAsGiven
<1>1. Spec => []DocInv
  BY DocInit, DocStep, PTL DEF Spec
<1> QED
  BY <1>1, DocumentIsRight, PTL
=============================================================================
